---- MODULE Spec2Model ----
(***************************************************************************)
(* Model of the workbench core: the tool-call assembler, the LLM router    *)
(* and the orchestrator loop with its per-call lifecycle.                  *)
(*                                                                         *)
(* Strings are modelled as sequences of lexemes (a name fragment, a JSON   *)
(* token), so that concatenation, trimming and parsing are computed.       *)
(***************************************************************************)
EXTENDS Integers, Sequences, FiniteSets, TLC

\* ------------------------------------------------------------------ bounds
MaxChunks == 3        \* chunks read from one provider stream (router spec)
MaxIndex == 1         \* call_index values 0..MaxIndex
MaxTurns == 2         \* largest max_turns the orchestrator is built with
MaxCallsPerStream == 2 \* tool calls scripted into one provider response
MaxToolCalls == 2     \* tool calls the provider asks for during one run
MaxPayloads == 1      \* artifact payloads on one tool result
MaxFeeds == 3         \* feed and flush calls on one assembler (assembler spec)
MaxAhead == 1         \* the future schema version is SCHEMA_VERSION + MaxAhead
MaxTasks == 2         \* coroutines that use one SessionStore concurrently
MaxOps == 4           \* store operations started in one behaviour
MaxSessions == 2      \* sessions created in one store
MaxMessages == 3      \* messages in one list handed to pack
MaxContext == 16      \* largest max_context_tokens handed to pack
MaxOutput == 1        \* largest max_output_tokens handed to pack
MaxAuditCalls == 2    \* audit_log calls on one engine (audit spec)
MaxKeepFiles == 3     \* largest audit_keep_files (rotation spec)
MaxWrites == 6        \* audit_log calls on one engine (rotation spec)
MaxArtOps == 4        \* calls on one ArtifactStore
MaxWriters == 2       \* store calls that run concurrently on one base directory

NoId == ""

\* ------------------------------------------------- tool_call_assembler.py
NameFrags == {<<>>, <<"echo">>, <<" ">>}
ArgFrags == {<<>>, <<"{">>, <<"}">>}
ProviderIds == {NoId, "idA"}

RawToolDelta(call_index, id, name_delta, args_delta, done) ==
    [call_index |-> call_index, id |-> id, name_delta |-> name_delta,
     args_delta |-> args_delta, done |-> done]


\* json.loads on the token language: an object with zero or one member.
MemberTokens == {"m", "r"}

JsonLoads(raw) ==
    IF raw = <<"{", "}">> THEN [ok |-> TRUE, value |-> {}]
    ELSE IF Len(raw) = 3 /\ raw[1] = "{" /\ raw[2] \in MemberTokens /\ raw[3] = "}"
         THEN [ok |-> TRUE, value |-> {raw[2]}]
         ELSE [ok |-> FALSE, value |-> {}]

Strip(s) ==
    LET RECURSIVE LStrip(_)
        RECURSIVE RStrip(_)
        LStrip(t) == IF t # <<>> /\ Head(t) = " " THEN LStrip(Tail(t)) ELSE t
        RStrip(t) == IF t # <<>> /\ t[Len(t)] = " "
                     THEN RStrip(SubSeq(t, 1, Len(t) - 1)) ELSE t
    IN  RStrip(LStrip(s))

ParseError(idx) == [kind |-> "tool_call_json_parse_failed", idx |-> idx]

ToolCall(id, name, arguments) == [id |-> id, name |-> name, arguments |-> arguments]

NewAssembler == [buf |-> <<>>, errors |-> <<>>]

DelBuf(buf, idx) == [i \in (DOMAIN buf) \ {idx} |-> buf[i]]

\* _finalize: returns the assembler after the call and the list it returns.
Finalize(asm, idx) ==
    IF idx \notin DOMAIN asm.buf
    THEN [asm |-> asm, out |-> <<>>]
    ELSE LET b == asm.buf[idx]
             raw_args == IF b.args = <<>> THEN <<"{", "}">> ELSE b.args
             parsed == JsonLoads(raw_args)
         IN IF ~parsed.ok
            THEN [asm |-> [buf |-> DelBuf(asm.buf, idx),
                           errors |-> Append(asm.errors, ParseError(idx))],
                  out |-> <<>>]
            ELSE [asm |-> [buf |-> DelBuf(asm.buf, idx), errors |-> asm.errors],
                  out |-> <<ToolCall(IF b.id # NoId THEN b.id ELSE "call_" \o ToString(idx),
                                     Strip(b.name), parsed.value)>>]

\* feed
Feed(asm, delta) ==
    LET idx == delta.call_index
        b0 == IF idx \in DOMAIN asm.buf THEN asm.buf[idx]
              ELSE [id |-> NoId, name |-> <<>>, args |-> <<>>]
        b1 == [id |-> IF delta.id # NoId /\ b0.id = NoId THEN delta.id ELSE b0.id,
               name |-> b0.name \o delta.name_delta,
               args |-> b0.args \o delta.args_delta]
        asm1 == [asm EXCEPT !.buf = (idx :> b1) @@ asm.buf]
    IN IF delta.done THEN Finalize(asm1, idx) ELSE [asm |-> asm1, out |-> <<>>]

\* The keys in descending order.
RECURSIVE SortedKeys_Descending(_)
SortedKeys_Descending(S) ==
    IF S = {} THEN <<>>
    ELSE LET m == CHOOSE x \in S : \A y \in S : x >= y
         IN <<m>> \o SortedKeys_Descending(S \ {m})

\* sorted(self._buf.keys())
RECURSIVE SortedKeys(_)
SortedKeys(S) ==
    IF S = {} THEN <<>>
    ELSE LET m == CHOOSE x \in S : \A y \in S : x <= y
         IN <<m>> \o SortedKeys(S \ {m})

RECURSIVE FlushKeys(_, _, _)
FlushKeys(asm, keys, calls) ==
    IF keys = <<>> THEN [asm |-> asm, out |-> calls]
    ELSE LET r == Finalize(asm, Head(keys))
         IN FlushKeys(r.asm, Tail(keys), calls \o r.out)

\* flush
Flush(asm) == FlushKeys(asm, SortedKeys(DOMAIN asm.buf), <<>>)

\* ---------------------------------------------------------------- router.py
TextChunk == [delta |-> <<"t">>, tool_deltas |-> <<>>]
ToolChunk(td) == [delta |-> <<>>, tool_deltas |-> <<td>>]
\* The chunks a provider may send in the router specification.
RouterChunks ==
    {TextChunk}
    \cup {ToolChunk(td) : td \in [call_index : 0..MaxIndex, id : ProviderIds,
                                   name_delta : NameFrags, args_delta : ArgFrags,
                                   done : BOOLEAN]}

\* The body of chat_complete's loop over the tool deltas of one chunk.
RECURSIVE FeedAll(_, _, _)
FeedAll(asm, tds, calls) ==
    IF tds = <<>> THEN [asm |-> asm, out |-> calls]
    ELSE LET r == Feed(asm, Head(tds))
         IN FeedAll(r.asm, Tail(tds), calls \o r.out)

\* One iteration of `async for chunk in provider.chat(...)`.
RouterChunk(rs, chunk) ==
    LET r == FeedAll(rs.assembler, chunk.tool_deltas, rs.assembled_calls)
    IN [assembler |-> r.asm,
        content_parts |-> rs.content_parts \o chunk.delta,
        assembled_calls |-> r.out]

NewRouterState == [assembler |-> NewAssembler, content_parts |-> <<>>,
                   assembled_calls |-> <<>>]

DropOnErrors_Keep(errors, calls) == calls

\* What is returned when the assembler recorded errors.
DropOnErrors(errors, calls) == IF errors # <<>> THEN <<>> ELSE calls

\* The code after the loop: flush, metadata, drop on errors, return.
\* metadata.assembler_errors absent is modelled as the empty list.
RouterReturn(rs, active) ==
    LET f == Flush(rs.assembler)
        calls == rs.assembled_calls \o f.out
    IN [content |-> rs.content_parts,
        tool_calls |-> DropOnErrors(f.asm.errors, calls),
        provider |-> active,
        metadata |-> [provider |-> active, assembler_errors |-> f.asm.errors]]

RECURSIVE ConsumeStream(_, _)
ConsumeStream(rs, stream) ==
    IF stream = <<>> THEN rs
    ELSE ConsumeStream(RouterChunk(rs, Head(stream)), Tail(stream))

\* chat_complete as a function of the stream the provider delivers.
chat_complete(stream, active) == RouterReturn(ConsumeStream(NewRouterState, stream), active)

NoAssembled == [content |-> <<>>, tool_calls |-> <<>>, provider |-> "",
                metadata |-> [provider |-> "", assembler_errors |-> <<>>]]

\* ------------------------------------------------------ tools/base.py
READ_ONLY == 10
WRITE == 20
DESTRUCTIVE == 30
SHELL == 40

\* tests/mock_tools.py: the tools registered with the orchestrator.  A
\* schema is its declared properties and its required ones
\* (additionalProperties is false after normalize_schema).
Registry ==
    { [name |-> <<"echo">>, risk_level |-> READ_ONLY,
       properties |-> {"m"}, required |-> {"m"}],
      [name |-> <<"delete_", "resource">>, risk_level |-> DESTRUCTIVE,
       properties |-> {"r"}, required |-> {"r"}] }

NoTool == [name |-> <<>>, risk_level |-> 0, properties |-> {}, required |-> {}]

\* ToolRegistry.get
RegistryGet(name) ==
    IF \E t \in Registry : t.name = name
    THEN CHOOSE t \in Registry : t.name = name
    ELSE NoTool

\* ToolValidator.validate: required members present, no undeclared member.
Validate(tool, arguments) ==
    /\ tool.required \subseteq arguments
    /\ arguments \subseteq tool.properties

\* ------------------------------------------------------- tools/policy.py
PolicyDecision(allowed, reason, requires_confirmation) ==
    [allowed |-> allowed, reason |-> reason,
     requires_confirmation |-> requires_confirmation]

NeedsConfirm(p, tool) ==
    IF tool.risk_level >= SHELL /\ p.confirm_shell THEN TRUE
    ELSE IF tool.risk_level >= DESTRUCTIVE /\ p.confirm_destructive THEN TRUE
    ELSE IF tool.risk_level >= WRITE /\ p.confirm_write THEN TRUE
    ELSE FALSE

\* ToolRisk.name
RiskName(risk) ==
    CASE risk = READ_ONLY -> "READ_ONLY"
      [] risk = WRITE -> "WRITE"
      [] risk = DESTRUCTIVE -> "DESTRUCTIVE"
      [] risk = SHELL -> "SHELL"

\* json.dumps(kwargs, sort_keys=True, default=str) on the token language.
SortedJsonDumps(kwargs) ==
    <<"{">> \o SelectSeq(<<"m", "r">>, LAMBDA t : t \in kwargs) \o <<"}">>

\* re.search(pat, blob): a blocking pattern is modelled by the member token
\* it matches.
Search(pat, blob) == \E i \in DOMAIN blob : blob[i] = pat

PolicyCheck_RiskInclusive(p, tool, kwargs) ==
    IF tool.risk_level >= p.max_risk
    THEN PolicyDecision(FALSE,
                        "risk_too_high:" \o RiskName(tool.risk_level) \o ">"
                            \o RiskName(p.max_risk),
                        FALSE)
    ELSE IF \E pat \in p.blocked_patterns : Search(pat, SortedJsonDumps(kwargs))
         THEN PolicyDecision(FALSE, "blocked_pattern", FALSE)
         ELSE IF NeedsConfirm(p, tool)
              THEN PolicyDecision(TRUE, "requires_confirmation", TRUE)
              ELSE PolicyDecision(TRUE, "ok", FALSE)

\* PolicyEngine.check
PolicyCheck(p, tool, kwargs) ==
    IF tool.risk_level > p.max_risk
    THEN PolicyDecision(FALSE,
                        "risk_too_high:" \o RiskName(tool.risk_level) \o ">"
                            \o RiskName(p.max_risk),
                        FALSE)
    ELSE IF \E pat \in p.blocked_patterns : Search(pat, SortedJsonDumps(kwargs))
         THEN PolicyDecision(FALSE, "blocked_pattern", FALSE)
         ELSE IF NeedsConfirm(p, tool)
              THEN PolicyDecision(TRUE, "requires_confirmation", TRUE)
              ELSE PolicyDecision(TRUE, "ok", FALSE)

\* The engines the orchestrator is built with: the permissive one of
\* TestConfirmation and the strict one of TestPolicyBlock.
PolicyConfigs ==
    { [max_risk |-> SHELL, confirm_destructive |-> TRUE, confirm_shell |-> TRUE,
       confirm_write |-> FALSE, blocked_patterns |-> {}],
      [max_risk |-> READ_ONLY, confirm_destructive |-> FALSE, confirm_shell |-> TRUE,
       confirm_write |-> FALSE, blocked_patterns |-> {}] }

\* ------------------------------------------------------ session/events.py
Event(type, turn_id, id, name, content, error, code, success, confirmed, details) ==
    [event_type |-> type, turn_id |-> turn_id, tool_call_id |-> id,
     tool_name |-> name, content |-> content, error |-> error,
     error_code |-> code, success |-> success, confirmed |-> confirmed,
     details |-> details]

user_message_event(turn_id, content) ==
    Event("user_message", turn_id, "", <<>>, content, "", "", FALSE, FALSE, <<>>)

assistant_message_event(turn_id, content) ==
    Event("assistant_message", turn_id, "", <<>>, content, "", "", FALSE, FALSE, <<>>)

tool_call_request_event(turn_id, tc) ==
    Event("tool_call_request", turn_id, tc.id, tc.name, <<>>, "", "", FALSE, FALSE, <<>>)

tool_call_result_event_NoId(turn_id, tc, result) ==
    Event("tool_call_result", turn_id, "", tc.name, result.content, result.error,
          result.error_code, result.success, FALSE, <<>>)

tool_call_result_event(turn_id, tc, result) ==
    Event("tool_call_result", turn_id, tc.id, tc.name, result.content, result.error,
          result.error_code, result.success, FALSE, <<>>)

confirmation_event_AlwaysTrue(turn_id, tc, confirmed) ==
    Event("confirmation", turn_id, tc.id, tc.name, <<>>, "", "", FALSE, TRUE, <<>>)

confirmation_event(turn_id, tc, confirmed) ==
    Event("confirmation", turn_id, tc.id, tc.name, <<>>, "", "", FALSE, confirmed, <<>>)

protocol_error_event(turn_id, errors) ==
    Event("protocol_error", turn_id, "", <<>>, <<"Tool call assembly failed">>, "", "",
          FALSE, FALSE, errors)

\* ---------------------------------------------------------------- types.py
ToolResult(success, content, error, error_code) ==
    [success |-> success, content |-> content, error |-> error,
     error_code |-> error_code]

\* ------------------------------------------------- tests/mock_providers.py
\* What router.chat_complete returns to the orchestrator over the scripted
\* streams.  A scripted call is the name, the argument text and whether
\* the provider sends the closing done delta.  make_multi_tool_call_provider
\* sends all names, then all arguments, then the done deltas, after an
\* optional text chunk (content_prefix).  The streams are tool calls alone,
\* and a content prefix ahead of at most one tool call.
ProviderResponses ==
    LET CallScripts ==
            { [name |-> <<"echo">>, args |-> <<"{", "m", "}">>, done |-> TRUE],
              [name |-> <<"echo">>, args |-> <<"{", "}">>, done |-> TRUE],
              [name |-> <<"delete_", "resource">>, args |-> <<"{", "r", "}">>, done |-> TRUE],
              [name |-> <<"nonexistent_tool">>, args |-> <<>>, done |-> FALSE],
              [name |-> <<"broken_tool">>, args |-> <<"{", "m">>, done |-> TRUE],
              [name |-> <<"broken_tool">>, args |-> <<"{", "m">>, done |-> FALSE] }
        ScriptSeqs == UNION {[1..n -> CallScripts] : n \in 0..MaxCallsPerStream}
        ScriptedStream(text, calls) ==
            (IF text THEN <<TextChunk>> ELSE <<>>)
            \o [i \in 1..Len(calls) |->
                  ToolChunk(RawToolDelta(i - 1, NoId, calls[i].name, <<>>, FALSE))]
            \o [i \in 1..Len(calls) |->
                  ToolChunk(RawToolDelta(i - 1, NoId, <<>>, calls[i].args, FALSE))]
            \o SelectSeq([i \in 1..Len(calls) |->
                            ToolChunk(RawToolDelta(i - 1, NoId, <<>>, <<>>, calls[i].done))],
                         LAMBDA c : c.tool_deltas[1].done)
        ProviderStreams ==
            {ScriptedStream(FALSE, calls) : calls \in ScriptSeqs}
            \cup {ScriptedStream(TRUE, calls) : calls \in {c \in ScriptSeqs : Len(c) <= 1}}
    IN  {chat_complete(stream, "test") : stream \in ProviderStreams}

\* ----------------------------------------- a ToolCallAssembler on its own
VARIABLES
    assembler,              \* the assembler: _buf and errors
    asm_ops,                \* feed and flush calls made on it
    asm_hist,               \* per call_index: what was fed and what came out
    asm_ret                 \* the list the last feed or flush returned

asm_vars == <<assembler, asm_ops, asm_hist, asm_ret>>

\* ---------------------------------------------- a SessionStore on its own
VARIABLES
    st_persisted,           \* schema version in the file when init is called
    st_open,                \* closed, open, or failed (init raised)
    st_version,             \* schema_version as the connection sees it
    st_applied,             \* migrations applied by init, in order
    st_sessions,            \* rows of sessions, as the connection sees them
    st_events,              \* rows of events in id order, as the connection sees them
    st_committed,           \* the committed sessions and events
    st_next_id,             \* the next AUTOINCREMENT id of events
    st_next_sid,            \* the next fresh session id (uuid4)
    st_lock,                \* holder of _write_lock, 0 when free
    st_tasks,               \* per coroutine: the operation it is in
    st_completed,           \* appends that have returned, in that order
    st_ops                  \* operations started

store_vars == <<st_persisted, st_open, st_version, st_applied, st_sessions, st_events,
                st_committed, st_next_id, st_next_sid, st_lock, st_tasks, st_completed,
                st_ops>>

\* ---------------------------------------------- a ContextPacker on its own
VARIABLES
    pk_args,                \* the arguments of the pack call
    pk_pc,                  \* idle, called or returned
    pk_ret                  \* what pack returned

pack_vars == <<pk_args, pk_pc, pk_ret>>

\* ----------------------------------------- PolicyEngine.check on its own
VARIABLES
    pol_engine,             \* the engine's configuration
    pol_call,               \* the tool and kwargs check is called with
    pol_pc,                 \* idle, called or returned
    pol_ret                 \* the PolicyDecision returned

policy_vars == <<pol_engine, pol_call, pol_pc, pol_ret>>

\* ------------------------------------- PolicyEngine.audit_log on its own
VARIABLES
    aud_engine,             \* redaction patterns, audit_max_bytes, audit_keep_files
    aud_files,              \* suffix number -> file; 0 is the primary log
    aud_written             \* every audit_log call made, with the record it wrote

audit_vars == <<aud_engine, aud_files, aud_written>>

\* --------------------------------------------- an ArtifactStore on its own
VARIABLES
    art_fs,                 \* the file system: directories, and files with their bytes
    art_refs,               \* the refs store has returned, each with the payload's bytes
    art_ret,                \* the last call: arguments, outcome, paths touched
    art_ops,                \* calls made
    art_tasks               \* writer -> where its store call stands (concurrent stores)

artifact_vars == <<art_fs, art_refs, art_ret, art_ops, art_tasks>>

\* The state of the components that are exercised on their own.
comp_vars == <<asm_vars, store_vars, pack_vars, policy_vars, audit_vars, artifact_vars>>

SCHEMA_VERSION == 1

Tasks == 1..MaxTasks

\* A coroutine's operation: its kind, position, session id and event; for a
\* read, the appends that had returned when it began and what it returned;
\* for a delete, the rows and sessions before its first statement.
NoTask == [op |-> "none", pc |-> "idle", sid |-> 0, ev |-> 0, began |-> <<>>,
           rows_before |-> <<>>, sessions_before |-> {}, result |-> <<>>,
           found |-> FALSE, failed |-> FALSE]

\* A store not yet opened on a file whose schema version is v.
StoreClosed(v) ==
    /\ st_persisted = v
    /\ st_open = "closed"
    /\ st_version = v
    /\ st_applied = <<>>
    /\ st_sessions = {}
    /\ st_events = <<>>
    /\ st_committed = [sessions |-> {}, events |-> <<>>]
    /\ st_next_id = 1
    /\ st_next_sid = 1
    /\ st_lock = 0
    /\ st_tasks = [t \in Tasks |-> NoTask]
    /\ st_completed = <<>>
    /\ st_ops = 0

StoreIdle == StoreClosed(SCHEMA_VERSION)

\* Per call_index: whether a delta was fed, the concatenated name and args
\* deltas, the first non-empty id, whether the last delta had done=true,
\* and the ToolCalls returned for the index.
AsmIdle ==
    /\ assembler = NewAssembler
    /\ asm_ops = 0
    /\ asm_hist = [i \in 0..MaxIndex |->
                      [fed |-> FALSE, name |-> <<>>, args |-> <<>>, id |-> NoId,
                       last_done |-> FALSE, calls |-> <<>>]]
    /\ asm_ret = <<>>

PackIdle ==
    /\ pk_args = [messages |-> <<>>, tools |-> <<>>, system_prompt |-> <<>>,
                  max_context_tokens |-> 0, max_output_tokens |-> 0,
                  reserve_tokens |-> 0]
    /\ pk_pc = "idle"
    /\ pk_ret = <<>>

PolicyIdle ==
    /\ pol_engine = [max_risk |-> READ_ONLY, confirm_destructive |-> TRUE,
                     confirm_shell |-> TRUE, confirm_write |-> FALSE,
                     blocked_patterns |-> {}]
    /\ pol_call = [risk_level |-> READ_ONLY, kwargs |-> {}]
    /\ pol_pc = "idle"
    /\ pol_ret = PolicyDecision(TRUE, "ok", FALSE)

\* An engine built with the defaults: no patterns, audit_max_size_mb = 10
\* and audit_keep_files = 5.
DefaultEngine == [redaction_patterns |-> <<>>,
                  audit_max_bytes |-> 10 * 1024 * 1024,
                  audit_keep_files |-> 5]

NoFile == [exists |-> FALSE, lines |-> <<>>]

\* A log directory that holds no file yet, for an engine that keeps `keep`
\* rotated files.
FreshDirectory(keep) == [i \in 0..(keep + 1) |-> NoFile]

AuditIdle ==
    /\ aud_engine = DefaultEngine
    /\ aud_files = FreshDirectory(DefaultEngine.audit_keep_files)
    /\ aud_written = <<>>

\* The directory the store is built on, and its surroundings: a sibling
\* directory whose name begins with the base directory's, with one file.
BaseDir == <<"srv", "art">>
OutsideFile == <<"srv", "art2", "key">>

\* ArtifactStore.__init__: base_dir exists after construction.
ArtifactIdle ==
    /\ art_fs = [dirs |-> {<<>>, <<"srv">>, BaseDir, <<"srv", "art2">>},
                 files |-> [f \in {OutsideFile} |-> "k"]]
    /\ art_refs = {}
    /\ art_ret = [op |-> "none", arg |-> "", before |-> {}, raised |-> "",
                  value |-> "", touched |-> {}, wrote |-> FALSE]
    /\ art_ops = 0
    /\ art_tasks = [t \in 1..MaxWriters |->
                      [pc |-> "idle", content |-> "", raised |-> "", value |-> ""]]

CompIdle == AsmIdle /\ StoreIdle /\ PackIdle /\ PolicyIdle /\ AuditIdle /\ ArtifactIdle

\* ------------------------------------------------------ orchestrator/core.py
VARIABLES
    router_pc,              \* chat_complete: streaming or returned
    router_state,           \* its assembler, content_parts and assembled_calls
    chunks_read,            \* chunks the provider has yielded
    router_ret,             \* the AssembledAssistant it returned
    flushed_calls,          \* assembled_calls after the flush, before the drop
    done_fed,               \* number of done=true deltas fed
    router_active,          \* LLMRouter._active, the name of the active provider
    router_provider,        \* chat_complete's local `provider`, by its name
    chunk_sources,          \* the providers whose stream yielded the chunks read
    max_turns,              \* Orchestrator.max_turns
    policy,                 \* Orchestrator.policy (its configuration)
    confirmation_callback,  \* TRUE when a callback was supplied
    pc,                     \* where run is suspended
    outcome,                \* how run ended: none, returned, raised, cancelled
    exit_path,              \* which return statement run took
    turn,                   \* the loop variable of run
    llm_calls,              \* number of chat_complete invocations
    assembled,              \* the AssembledAssistant of the current round
    tc_idx,                 \* position in assembled.tool_calls
    cur,                    \* the lifecycle of the current tool call
    log,                    \* the session's event log
    yielded,                \* the chunks run has yielded
    rounds                  \* per chat_complete: log length before it, calls in it

router_vars == <<router_pc, router_state, chunks_read, router_ret, flushed_calls,
                 done_fed, router_active, router_provider, chunk_sources>>

orch_vars == <<max_turns, policy, confirmation_callback, pc, outcome, exit_path,
               turn, llm_calls, assembled, tc_idx, cur, log, yielded, rounds>>

vars == <<router_vars, orch_vars, comp_vars>>

TurnId == 1

NoCall == [tc |-> ToolCall("", <<>>, {}), began |-> FALSE,
           asked |-> FALSE, confirmed |-> FALSE, executed |-> FALSE,
           exec_outcome |-> "none", payloads |-> 0, stored |-> 0,
           audit_calls |-> 0, audit_raised |-> FALSE,
           result |-> ToolResult(FALSE, <<>>, "", "pending"), returned |-> FALSE]

Chunk(kind, done) == [kind |-> kind, done |-> done]

RouterIdle ==
    /\ router_pc = "streaming"
    /\ router_state = NewRouterState
    /\ chunks_read = 0
    /\ router_ret = NoAssembled
    /\ flushed_calls = <<>>
    /\ done_fed = 0
    /\ router_active = "test"
    /\ router_provider = router_active
    /\ chunk_sources = {}

OrchIdle(mt, p, cb) ==
    /\ max_turns = mt
    /\ policy = p
    /\ confirmation_callback = cb
    /\ pc = "idle"
    /\ outcome = "none"
    /\ exit_path = "none"
    /\ turn = 0
    /\ llm_calls = 0
    /\ assembled = NoAssembled
    /\ tc_idx = 0
    /\ cur = NoCall
    /\ log = <<>>
    /\ yielded = <<>>
    /\ rounds = <<>>

\* The state after construction of an orchestrator on a fresh session.
Init ==
    /\ RouterIdle
    /\ CompIdle
    /\ \E mt \in 0..MaxTurns, p \in PolicyConfigs, cb \in BOOLEAN : OrchIdle(mt, p, cb)

\* The router on its own, with one fixed orchestrator around it.
RouterInit ==
    /\ RouterIdle
    /\ CompIdle
    /\ OrchIdle(MaxTurns, CHOOSE p \in PolicyConfigs : p.max_risk = SHELL, TRUE)

\* The provider yields one more chunk and the loop body runs on it.
RouterRead ==
    /\ router_pc = "streaming"
    /\ chunks_read < MaxChunks
    /\ \E chunk \in RouterChunks :
          /\ router_state' = RouterChunk(router_state, chunk)
          /\ done_fed' = done_fed + Len(SelectSeq(chunk.tool_deltas, LAMBDA td : td.done))
    /\ chunks_read' = chunks_read + 1
    /\ chunk_sources' = chunk_sources \cup {router_provider}
    /\ UNCHANGED <<router_pc, router_ret, flushed_calls, router_active, router_provider>>
    /\ UNCHANGED <<orch_vars, comp_vars>>

\* The stream ends: chat_complete flushes and returns.
RouterEnd ==
    /\ router_pc = "streaming"
    /\ router_pc' = "returned"
    /\ router_ret' = RouterReturn(router_state, router_active)
    /\ flushed_calls' = router_state.assembled_calls
                          \o Flush(router_state.assembler).out
    /\ UNCHANGED <<router_state, chunks_read, done_fed, router_active, router_provider,
                   chunk_sources>>
    /\ UNCHANGED <<orch_vars, comp_vars>>

NextRouter == RouterRead \/ RouterEnd

SpecRouter == RouterInit /\ [][NextRouter]_vars

\* router.set_active(name) while chat_complete consumes the stream, for the
\* registered providers; an unregistered name raises KeyError and changes
\* nothing.
set_active ==
    /\ router_pc = "streaming"
    /\ \E name \in {"test", "other"} : router_active' = name
    /\ UNCHANGED <<router_pc, router_state, chunks_read, router_ret, flushed_calls,
                   done_fed, router_provider, chunk_sources>>
    /\ UNCHANGED <<orch_vars, comp_vars>>

NextSwitch == RouterRead \/ RouterEnd \/ set_active

SpecSwitch == RouterInit /\ [][NextSwitch]_vars

\* ------------------------------------------------------------ Orchestrator.run
RequestCount(events) ==
    Cardinality({i \in DOMAIN events : events[i].event_type = "tool_call_request"})

LoopContinues_Always(t, mt) == TRUE

LoopContinues_OffByOne(t, mt) == t <= mt

\* `for turn in range(self.max_turns)`: whether iteration t runs.
LoopContinues(t, mt) == t < mt

\* The head of the loop with t iterations completed, the log being log1 and
\* the yielded chunks y1: suspend in chat_complete, or leave the loop, append
\* the cap message, yield it and return.
LoopHead(t, log1, y1) ==
    /\ turn' = t
    /\ IF LoopContinues(t, max_turns)
       THEN /\ pc' = "llm"
            /\ log' = log1
            /\ yielded' = y1
            /\ UNCHANGED <<outcome, exit_path>>
       ELSE /\ pc' = "done"
            /\ log' = Append(log1, assistant_message_event(TurnId, <<"max_turns_msg">>))
            /\ yielded' = Append(y1, Chunk("max_turns_msg", TRUE))
            /\ outcome' = "returned"
            /\ exit_path' = "max_turns"

\* run is called: new turn, user_message event, loop entry.
Run ==
    /\ pc = "idle"
    /\ LoopHead(0, Append(log, user_message_event(TurnId, <<"hello">>)), yielded)
    /\ UNCHANGED <<max_turns, policy, confirmation_callback, llm_calls, assembled,
                   tc_idx, cur, rounds>>
    /\ UNCHANGED <<router_vars, comp_vars>>

ResponseBranch_IgnoreErrors(a) ==
    IF a.tool_calls = <<>> THEN "final" ELSE "tools"

\* Lines 121-161: which branch run takes on an assembled response.
ResponseBranch(a) ==
    IF a.metadata.assembler_errors # <<>> THEN "protocol_error"
    ELSE IF a.tool_calls = <<>> THEN "final"
    ELSE "tools"

\* chat_complete returns and run goes on to its next suspension point.
ChatComplete ==
    /\ pc = "llm"
    /\ \E a \in ProviderResponses :
         LET br == ResponseBranch(a)
             has_content == a.content # <<>>
             msg == assistant_message_event(TurnId, a.content)
         IN /\ RequestCount(log) + Len(a.tool_calls) <= MaxToolCalls
            /\ assembled' = a
            /\ llm_calls' = llm_calls + 1
            /\ rounds' = Append(rounds, [start |-> Len(log), size |-> Len(a.tool_calls)])
            /\ CASE br = "protocol_error" ->
                      /\ log' = log \o <<protocol_error_event(TurnId, a.metadata.assembler_errors),
                                         IF has_content THEN msg
                                         ELSE assistant_message_event(TurnId, <<"error_msg">>)>>
                      /\ yielded' = Append(yielded,
                                           Chunk(IF has_content THEN "content" ELSE "error_msg", TRUE))
                      /\ pc' = "done"
                      /\ outcome' = "returned"
                      /\ exit_path' = "protocol_error"
                      /\ UNCHANGED tc_idx
                 [] br = "final" ->
                      /\ log' = IF has_content THEN Append(log, msg) ELSE log
                      /\ yielded' = IF has_content THEN Append(yielded, Chunk("content", TRUE))
                                    ELSE yielded
                      /\ pc' = "done"
                      /\ outcome' = "returned"
                      /\ exit_path' = "final"
                      /\ UNCHANGED tc_idx
                 [] br = "tools" ->
                      /\ log' = IF has_content THEN Append(log, msg) ELSE log
                      /\ yielded' = IF has_content THEN Append(yielded, Chunk("content", FALSE))
                                    ELSE yielded
                      /\ pc' = "call"
                      /\ tc_idx' = 1
                      /\ UNCHANGED <<outcome, exit_path>>
    /\ UNCHANGED <<max_turns, policy, confirmation_callback, turn, cur>>
    /\ UNCHANGED <<router_vars, comp_vars>>

\* ------------------------------------------- Orchestrator._execute_tool_call
CancelledResult ==
    ToolResult(FALSE, <<"Tool call cancelled by user">>, "User declined confirmation", "cancelled")
SuccessResult == ToolResult(TRUE, <<"output">>, "", "")

CallAt_Reversed(calls, i) == calls[Len(calls) + 1 - i]

\* `for tc in assembled.tool_calls`: the call of the i-th iteration.
CallAt(calls, i) == calls[i]

Gate_NoCallbackExecutes(found, valid, decision, has_callback) ==
    IF ~found THEN "unknown_tool"
    ELSE IF ~valid THEN "validation_error"
    ELSE IF ~decision.allowed THEN "policy_block"
    ELSE IF decision.requires_confirmation /\ has_callback THEN "confirm"
    ELSE "execute"

Gate_NoPolicy(found, valid, decision, has_callback) ==
    IF ~found THEN "unknown_tool"
    ELSE IF ~valid THEN "validation_error"
    ELSE IF decision.requires_confirmation
         THEN IF has_callback THEN "confirm" ELSE "cancelled"
         ELSE "execute"

\* Steps 2-5: where the lifecycle goes after the request event.
Gate(found, valid, decision, has_callback) ==
    IF ~found THEN "unknown_tool"
    ELSE IF ~valid THEN "validation_error"
    ELSE IF ~decision.allowed THEN "policy_block"
    ELSE IF decision.requires_confirmation
         THEN IF has_callback THEN "confirm" ELSE "cancelled"
         ELSE "execute"

\* _execute_tool_call appends the result event and returns to run, which
\* is then at its yield of the tool chunk.
Finish(c, log1, result) ==
    /\ log' = Append(log1, tool_call_result_event(TurnId, c.tc, result))
    /\ cur' = [c EXCEPT !.result = result, !.returned = TRUE]
    /\ pc' = "yield_tool"

\* Steps 1-5 up to the first suspension: request event, lookup, validation,
\* policy check, and the confirmation that needs no callback.
ExecuteToolCall ==
    /\ pc = "call"
    /\ LET tc == CallAt(assembled.tool_calls, tc_idx)
           tool == RegistryGet(tc.name)
           found == tool # NoTool
           valid == found /\ Validate(tool, tc.arguments)
           decision == PolicyCheck(policy, tool, tc.arguments)
           g == Gate(found, valid, decision, confirmation_callback)
           log1 == Append(log, tool_call_request_event(TurnId, tc))
           c0 == [NoCall EXCEPT !.tc = tc, !.began = TRUE]
       IN CASE g = "unknown_tool" -> Finish(c0, log1, ToolResult(FALSE, <<"Unknown tool">>, "Unknown tool",
                                                                    "unknown_tool"))
            [] g = "validation_error" -> Finish(c0, log1, ToolResult(FALSE, <<"Validation error">>, "error_msg",
                                                                        "validation_error"))
            [] g = "policy_block" -> Finish(c0, log1, ToolResult(FALSE, <<"Policy blocked">>, decision.reason,
                                                                    "policy_block"))
            [] g = "cancelled" ->
                 Finish(c0, Append(log1, confirmation_event(TurnId, tc, FALSE)),
                        CancelledResult)
            [] g = "confirm" -> /\ log' = log1
                                /\ cur' = c0
                                /\ pc' = "confirm"
            [] g = "execute" -> /\ log' = log1
                                /\ cur' = c0
                                /\ pc' = "exec"
    /\ UNCHANGED <<max_turns, policy, confirmation_callback, outcome, exit_path,
                   turn, llm_calls, assembled, tc_idx, yielded, rounds>>
    /\ UNCHANGED <<router_vars, comp_vars>>

\* Step 5: the confirmation callback returns.
ConfirmationCallback ==
    /\ pc = "confirm"
    /\ \E confirmed \in BOOLEAN :
         LET log1 == Append(log, confirmation_event(TurnId, cur.tc, confirmed))
             c1 == [cur EXCEPT !.asked = TRUE, !.confirmed = confirmed]
         IN IF ~confirmed
            THEN Finish(c1, log1, CancelledResult)
            ELSE /\ log' = log1
                 /\ cur' = c1
                 /\ pc' = "exec"
    /\ UNCHANGED <<max_turns, policy, confirmation_callback, outcome, exit_path,
                   turn, llm_calls, assembled, tc_idx, yielded, rounds>>
    /\ UNCHANGED <<router_vars, comp_vars>>

\* Step 6 and what follows it without suspension: wait_for(tool.execute)
\* ends by the deadline, by an exception or by a result whose artifact
\* payloads are then stored (step 7).  str(e) of the exception a tool
\* raises is empty (AssertionError()) or not.
ToolExecute ==
    /\ pc = "exec"
    /\ \E oc \in {"timeout", "exception", "success"}, n \in 0..MaxPayloads :
         LET c1 == [cur EXCEPT !.executed = TRUE, !.exec_outcome = oc,
                               !.payloads = IF oc = "success" THEN n ELSE 0]
             ExceptionResult(msg) ==
                 ToolResult(FALSE, <<"Tool exception: ", msg>>, msg, "tool_exception")
         IN CASE oc = "timeout" -> /\ n = 0
                                   /\ Finish(c1, log, ToolResult(FALSE, <<"Tool timed out">>,
                                                                 "Timeout", "timeout"))
              [] oc = "exception" ->
                   /\ n = 0
                   /\ \E msg \in {"", "boom"} :
                        /\ log' = Append(log, tool_call_result_event(TurnId, cur.tc,
                                                                     ExceptionResult(msg)))
                        /\ cur' = [c1 EXCEPT !.result = ExceptionResult(msg)]
                   /\ pc' = "audit_exc"
              [] oc = "success" ->
                   /\ log' = log
                   /\ cur' = [c1 EXCEPT !.stored = n, !.result = SuccessResult]
                   /\ pc' = "audit"
    /\ UNCHANGED <<max_turns, policy, confirmation_callback, outcome, exit_path,
                   turn, llm_calls, assembled, tc_idx, yielded, rounds>>
    /\ UNCHANGED <<router_vars, comp_vars>>

AuditHandler_Propagate(raised) == IF raised THEN "propagate" ELSE "ok"

\* The try/except around policy.audit_log: what becomes of a raise.
AuditHandler(raised) == IF raised THEN "logged" ELSE "ok"

\* Step 8 (and the audit of the exception handler): audit_log returns or
\* raises; on the success path the result event follows (step 9).
AuditLog ==
    /\ pc \in {"audit", "audit_exc"}
    /\ \E raised \in BOOLEAN :
         LET c1 == [cur EXCEPT !.audit_calls = @ + 1, !.audit_raised = raised]
         IN IF AuditHandler(raised) = "propagate"
            THEN /\ pc' = "done"
                 /\ outcome' = "raised"
                 /\ cur' = c1
                 /\ log' = log
            ELSE /\ outcome' = outcome
                 /\ IF pc = "audit"
                    THEN Finish(c1, log, c1.result)
                    ELSE /\ log' = log
                         /\ cur' = [c1 EXCEPT !.returned = TRUE]
                         /\ pc' = "yield_tool"
    /\ UNCHANGED <<max_turns, policy, confirmation_callback, exit_path,
                   turn, llm_calls, assembled, tc_idx, yielded, rounds>>
    /\ UNCHANGED <<router_vars, comp_vars>>

\* run resumes after _execute_tool_call: yield the tool chunk, then the next
\* tool call of the round or the next loop iteration.
ResumeAfterTool ==
    /\ pc = "yield_tool"
    /\ LET y1 == Append(yielded, Chunk("tool", FALSE))
       IN IF tc_idx < Len(assembled.tool_calls)
          THEN /\ tc_idx' = tc_idx + 1
               /\ pc' = "call"
               /\ yielded' = y1
               /\ UNCHANGED <<log, turn, outcome, exit_path>>
          ELSE /\ tc_idx' = tc_idx
               /\ LoopHead(turn + 1, log, y1)
    /\ UNCHANGED <<max_turns, policy, confirmation_callback, llm_calls, assembled, cur,
                   rounds>>
    /\ UNCHANGED <<router_vars, comp_vars>>

\* --------------------------------------------------------------- faults
\* Step 7 raises: ArtifactStore.store fails with an I/O error on a payload
\* of a successful result; nothing in _execute_tool_call or run catches it.
ArtifactStoreRaises ==
    /\ pc = "exec"
    /\ \E n \in 1..MaxPayloads, k \in 1..MaxPayloads :
         /\ k <= n
         /\ cur' = [cur EXCEPT !.executed = TRUE, !.exec_outcome = "success",
                               !.payloads = n, !.stored = k - 1,
                               !.result = SuccessResult]
    /\ pc' = "done"
    /\ outcome' = "raised"
    /\ UNCHANGED <<max_turns, policy, confirmation_callback, exit_path,
                   turn, llm_calls, assembled, tc_idx, log, yielded, rounds>>
    /\ UNCHANGED <<router_vars, comp_vars>>

\* The run is cancelled at one of the awaits at which its task is
\* suspended: CancelledError is raised at the await and no handler of run
\* or _execute_tool_call catches it.
Cancel ==
    /\ pc \in {"llm", "confirm", "exec", "audit", "audit_exc"}
    /\ pc' = "done"
    /\ outcome' = "cancelled"
    /\ UNCHANGED <<max_turns, policy, confirmation_callback, exit_path,
                   turn, llm_calls, assembled, tc_idx, cur, log, yielded, rounds>>
    /\ UNCHANGED <<router_vars, comp_vars>>

Next ==
    \/ Run
    \/ ChatComplete
    \/ ExecuteToolCall
    \/ ConfirmationCallback
    \/ ToolExecute
    \/ AuditLog
    \/ ResumeAfterTool

Spec == Init /\ [][Next]_vars

\* Every await of the run completes: streams end, callbacks and tools return.
SpecLive == Init /\ [][Next]_vars /\ WF_vars(Next)

NextFaults == Next \/ ArtifactStoreRaises \/ Cancel

SpecFaults == Init /\ [][NextFaults]_vars

\* --------------------------------------------- the assembler on its own
non_asm_vars == <<router_vars, orch_vars, store_vars, pack_vars, policy_vars, audit_vars, artifact_vars>>

\* The orchestrator that stands unused beside a component on its own.
OrchUnused ==
    /\ RouterIdle
    /\ OrchIdle(MaxTurns, CHOOSE p \in PolicyConfigs : p.max_risk = SHELL, TRUE)

AsmInit ==
    /\ OrchUnused
    /\ CompIdle

\* assembler.feed(delta).  Each delta fed carries at most one of an id, a
\* name fragment and an argument fragment.
AsmFeed ==
    /\ asm_ops < MaxFeeds
    /\ \E delta \in
           {RawToolDelta(i, id, <<>>, <<>>, dn) :
                i \in 0..MaxIndex, id \in ProviderIds, dn \in BOOLEAN}
           \cup {RawToolDelta(i, NoId, n, <<>>, dn) :
                     i \in 0..MaxIndex, n \in NameFrags, dn \in BOOLEAN}
           \cup {RawToolDelta(i, NoId, <<>>, a, dn) :
                     i \in 0..MaxIndex, a \in ArgFrags, dn \in BOOLEAN} :
         LET r == Feed(assembler, delta)
             idx == delta.call_index
             h == asm_hist[idx]
         IN /\ assembler' = r.asm
            /\ asm_ret' = r.out
            /\ asm_hist' = [asm_hist EXCEPT ![idx] =
                              [fed |-> TRUE,
                               name |-> h.name \o delta.name_delta,
                               args |-> h.args \o delta.args_delta,
                               id |-> IF h.id = NoId THEN delta.id ELSE h.id,
                               last_done |-> delta.done,
                               calls |-> h.calls \o r.out]]
    /\ asm_ops' = asm_ops + 1
    /\ UNCHANGED non_asm_vars

\* assembler.flush()
AsmFlush ==
    /\ asm_ops < MaxFeeds
    /\ LET r == Flush(assembler)
       IN /\ assembler' = r.asm
          /\ asm_ret' = r.out
          /\ asm_hist' = [i \in 0..MaxIndex |->
                            [asm_hist[i] EXCEPT !.calls = @ \o Finalize(assembler, i).out]]
    /\ asm_ops' = asm_ops + 1
    /\ UNCHANGED non_asm_vars

NextAssembler == AsmFeed \/ AsmFlush

SpecAssembler == AsmInit /\ [][NextAssembler]_vars

\* ------------------------------------------------------ session/store.py
non_store_vars == <<router_vars, orch_vars, asm_vars, pack_vars, policy_vars, audit_vars, artifact_vars>>

StoreInit ==
    /\ OrchUnused
    /\ ArtifactIdle
    /\ AuditIdle
    /\ AsmIdle
    /\ PackIdle
    /\ PolicyIdle
    /\ \E v \in (0..SCHEMA_VERSION) \cup {SCHEMA_VERSION + MaxAhead} : StoreClosed(v)

\* The loop of _run_migrations: `for version in range(current + 1, target + 1)`.
RECURSIVE MigrateFrom(_, _, _)
MigrateFrom(version, target, applied) ==
    IF version > target THEN [ok |-> TRUE, version |-> target, applied |-> applied]
    ELSE IF version \notin {1}     \* the keys of MIGRATIONS
         THEN [ok |-> FALSE, version |-> version - 1, applied |-> applied]
         ELSE MigrateFrom(version + 1, target, Append(applied, version))

\* _run_migrations on a file at version current.
run_migrations(current) ==
    IF current >= SCHEMA_VERSION
    THEN [ok |-> TRUE, version |-> current, applied |-> <<>>]
    ELSE MigrateFrom(current + 1, SCHEMA_VERSION, <<>>)

\* SessionStore.init
StoreOpen ==
    /\ st_open = "closed"
    /\ LET r == run_migrations(st_version)
       IN /\ st_open' = IF r.ok THEN "open" ELSE "failed"
          /\ st_version' = r.version
          /\ st_applied' = r.applied
    /\ UNCHANGED <<st_persisted, st_sessions, st_events, st_committed, st_next_id,
                   st_next_sid, st_lock, st_tasks, st_completed, st_ops>>
    /\ UNCHANGED non_store_vars

Row(id, session_id, event) == [id |-> id, session_id |-> session_id, event |-> event]

\* The rows of a table that belong (or do not belong) to a session.
RowsOf(rows, sid) == SelectSeq(rows, LAMBDA r : r.session_id = sid)
RowsNotOf(rows, sid) == SelectSeq(rows, LAMBDA r : r.session_id # sid)

SelectEvents_AllSessions(rows, sid) == rows

\* SELECT ... FROM events WHERE session_id = ? ORDER BY id ASC; the table
\* is kept in id order.
SelectEvents(rows, sid) == RowsOf(rows, sid)

store_frame == <<st_persisted, st_open, st_version, st_applied>>

\* A coroutine calls create_session, append_event, delete_session,
\* get_events or get_session; the reads go straight to their first
\* statement, the writes to the lock.
\* The call runs in the first coroutine that is free.
StartOp(t) ==
    /\ st_open = "open"
    /\ st_tasks[t].pc \in {"idle", "done"}
    /\ \A u \in 1..(t - 1) : st_tasks[u].pc \notin {"idle", "done"}
    /\ st_ops < MaxOps
    /\ \E op \in {"create", "append", "delete", "get_events", "get_session"},
          sid \in 1..MaxSessions :
         /\ IF op = "create"
            THEN sid = st_next_sid
            ELSE sid < st_next_sid
         /\ st_tasks' = [st_tasks EXCEPT ![t] =
                [NoTask EXCEPT !.op = op, !.sid = sid, !.ev = st_ops + 1,
                               !.began = st_completed,
                               !.pc = IF op \in {"get_events", "get_session"}
                                      THEN "select" ELSE "lock"]]
         /\ st_next_sid' = IF op = "create" THEN st_next_sid + 1 ELSE st_next_sid
    /\ st_ops' = st_ops + 1
    /\ UNCHANGED <<store_frame, st_sessions, st_events, st_committed, st_next_id,
                   st_lock, st_completed>>
    /\ UNCHANGED non_store_vars

\* `async with self._write_lock` is entered.
AcquireLock(t) ==
    /\ st_tasks[t].pc = "lock"
    /\ st_lock = 0
    /\ st_lock' = t
    /\ st_tasks' = [st_tasks EXCEPT ![t].pc = "stmt"]
    /\ UNCHANGED <<store_frame, st_sessions, st_events, st_committed, st_next_id,
                   st_next_sid, st_completed, st_ops>>
    /\ UNCHANGED non_store_vars

\* The first statement under the lock: the INSERT of create_session, the
\* INSERT of append_event (which the foreign key rejects for a session that
\* is not there: the exception leaves the lock), or DELETE FROM events.
FirstStatement(t) ==
    /\ st_tasks[t].pc = "stmt"
    /\ LET k == st_tasks[t]
       IN CASE k.op = "create" ->
                 /\ st_sessions' = st_sessions \cup {k.sid}
                 /\ st_tasks' = [st_tasks EXCEPT ![t].pc = "commit"]
                 /\ UNCHANGED <<st_events, st_next_id, st_lock>>
            [] k.op = "append" /\ k.sid \in st_sessions ->
                 /\ st_events' = Append(st_events, Row(st_next_id, k.sid, k.ev))
                 /\ st_next_id' = st_next_id + 1
                 /\ st_tasks' = [st_tasks EXCEPT ![t].pc = "commit"]
                 /\ UNCHANGED <<st_sessions, st_lock>>
            [] k.op = "append" /\ k.sid \notin st_sessions ->
                 /\ st_tasks' = [st_tasks EXCEPT ![t].pc = "done", ![t].failed = TRUE]
                 /\ st_lock' = 0
                 /\ UNCHANGED <<st_sessions, st_events, st_next_id>>
            [] k.op = "delete" ->
                 /\ st_events' = RowsNotOf(st_events, k.sid)
                 /\ st_tasks' = [st_tasks EXCEPT ![t].pc = "stmt2",
                                                 ![t].rows_before = st_events,
                                                 ![t].sessions_before = st_sessions]
                 /\ UNCHANGED <<st_sessions, st_next_id, st_lock>>
    /\ UNCHANGED <<store_frame, st_committed, st_next_sid, st_completed, st_ops>>
    /\ UNCHANGED non_store_vars

\* DELETE FROM sessions, with ON DELETE CASCADE on events.
SecondStatement(t) ==
    /\ st_tasks[t].pc = "stmt2"
    /\ st_sessions' = st_sessions \ {st_tasks[t].sid}
    /\ st_events' = RowsNotOf(st_events, st_tasks[t].sid)
    /\ st_tasks' = [st_tasks EXCEPT ![t].pc = "commit"]
    /\ UNCHANGED <<store_frame, st_committed, st_next_id, st_next_sid, st_lock,
                   st_completed, st_ops>>
    /\ UNCHANGED non_store_vars

\* commit, the lock is left and the operation returns.
Commit(t) ==
    /\ st_tasks[t].pc = "commit"
    /\ st_committed' = [sessions |-> st_sessions, events |-> st_events]
    /\ st_lock' = 0
    /\ st_tasks' = [st_tasks EXCEPT ![t].pc = "done"]
    /\ st_completed' = IF st_tasks[t].op = "append"
                       THEN Append(st_completed, Row(0, st_tasks[t].sid, st_tasks[t].ev))
                       ELSE st_completed
    /\ UNCHANGED <<store_frame, st_sessions, st_events, st_next_id, st_next_sid, st_ops>>
    /\ UNCHANGED non_store_vars

\* The SELECT of a read is executed on the connection; get_session has its
\* row, get_events goes on to fetchall.
Select(t) ==
    /\ st_tasks[t].pc = "select"
    /\ LET k == st_tasks[t]
       IN IF k.op = "get_session"
          THEN st_tasks' = [st_tasks EXCEPT ![t].pc = "done",
                                            ![t].found = k.sid \in st_sessions]
          ELSE st_tasks' = [st_tasks EXCEPT ![t].pc = "fetch",
                                            ![t].result = SelectEvents(st_events, k.sid)]
    /\ UNCHANGED <<store_frame, st_sessions, st_events, st_committed, st_next_id,
                   st_next_sid, st_lock, st_completed, st_ops>>
    /\ UNCHANGED non_store_vars

\* fetchall: the rows as they were when the SELECT was executed, or as they
\* are now (SQLite leaves open whether a running SELECT sees later changes
\* made on its own connection).
Fetch(t) ==
    /\ st_tasks[t].pc = "fetch"
    /\ \E late \in BOOLEAN :
         st_tasks' = [st_tasks EXCEPT
                        ![t].pc = "done",
                        ![t].result = IF late THEN SelectEvents(st_events, st_tasks[t].sid)
                                      ELSE @]
    /\ UNCHANGED <<store_frame, st_sessions, st_events, st_committed, st_next_id,
                   st_next_sid, st_lock, st_completed, st_ops>>
    /\ UNCHANGED non_store_vars

NextStore ==
    \/ StoreOpen
    \/ \E t \in Tasks :
         \/ StartOp(t)
         \/ AcquireLock(t)
         \/ FirstStatement(t)
         \/ SecondStatement(t)
         \/ Commit(t)
         \/ Select(t)
         \/ Fetch(t)

SpecStore == StoreInit /\ [][NextStore]_vars

\* ------------------------------------------------------ session/session.py
\* A Message; tool_calls None is the empty list, a ToolCall is carried by
\* its id and name.  turn_id is the turn of the event the message was
\* derived from (not a field of Message).
Message(role, content, tool_calls, tool_call_id, turn_id) ==
    [role |-> role, content |-> content, tool_calls |-> tool_calls,
     tool_call_id |-> tool_call_id, turn_id |-> turn_id]

\* f"[Error] {p['error']}: {content}"
ErrorContent(error, content) == <<"[Error] ", error, ": ">> \o content

\* _flush_pending: attach the pending tool calls to the most recent
\* assistant message; without one they are dropped.
FlushPending(messages, pending) ==
    LET A == {i \in DOMAIN messages : messages[i].role = "assistant"}
    IN IF pending = <<>> \/ A = {} THEN messages
       ELSE LET last == CHOOSE i \in A : \A j \in A : j <= i
            IN [messages EXCEPT ![last].tool_calls = @ \o pending]

\* The loop of get_messages over the events, and its final flush.
RECURSIVE DeriveMessages(_, _, _)
DeriveMessages(events, messages, pending) ==
    IF events = <<>> THEN FlushPending(messages, pending)
    ELSE LET e == Head(events)
             et == e.event_type
             flushed == FlushPending(messages, pending)
         IN CASE et = "user_message" ->
                   DeriveMessages(Tail(events),
                       Append(flushed, Message("user", e.content, <<>>, "", e.turn_id)),
                       <<>>)
              [] et = "assistant_message" ->
                   DeriveMessages(Tail(events),
                       Append(flushed, Message("assistant", e.content, <<>>, "", e.turn_id)),
                       <<>>)
              [] et = "tool_call_request" ->
                   DeriveMessages(Tail(events), messages,
                       Append(pending, [id |-> e.tool_call_id, name |-> e.tool_name]))
              [] et = "tool_call_result" ->
                   DeriveMessages(Tail(events),
                       Append(flushed,
                              Message("tool",
                                      IF e.error # "" THEN ErrorContent(e.error, e.content)
                                      ELSE e.content,
                                      <<>>, e.tool_call_id, e.turn_id)),
                       <<>>)
              [] OTHER -> DeriveMessages(Tail(events), messages, pending)

\* Session.get_messages on an event log.
get_messages(events) == DeriveMessages(events, <<>>, <<>>)

\* ------------------------------------------------- llm/token_counter.py
\* The number of characters of a text.
RECURSIVE Chars(_)
Chars(text) == IF text = <<>> THEN 0 ELSE Len(Head(text)) + Chars(Tail(text))

\* TokenCounter.count_text with the character heuristic (no tiktoken).
count_text(text) ==
    IF Chars(text) = 0 THEN 0
    ELSE IF Chars(text) \div 4 >= 1 THEN Chars(text) \div 4 ELSE 1

\* json.dumps of the tool schema list; a schema is given by its JSON text.
RECURSIVE JoinSchemas(_)
JoinSchemas(tools) ==
    IF tools = <<>> THEN <<>>
    ELSE IF Len(tools) = 1 THEN Head(tools)
    ELSE Head(tools) \o <<", ">> \o JoinSchemas(Tail(tools))

ToolsJson(tools) == <<"[">> \o JoinSchemas(tools) \o <<"]">>

\* ------------------------------------------------------ session/context.py
non_pack_vars == <<router_vars, orch_vars, asm_vars, store_vars, policy_vars, audit_vars, artifact_vars>>

RECURSIVE ToolCallTokens(_)
ToolCallTokens(tool_calls) ==
    LET \* json.dumps of parsed arguments, on the token language of JsonLoads
        JsonDumps(arguments) ==
            IF arguments = {} THEN <<"{", "}">>
            ELSE <<"{", CHOOSE m \in arguments : TRUE, "}">>
    IN  IF tool_calls = <<>> THEN 0
        ELSE count_text(Head(tool_calls).name)
             + count_text(JsonDumps(Head(tool_calls).arguments))
             + ToolCallTokens(Tail(tool_calls))

\* ContextPacker._message_tokens
message_tokens(msg) ==
    LET overhead == 4
    IN overhead + count_text(msg.content)
       + ToolCallTokens(msg.tool_calls)
       + (IF msg.tool_call_id # "" THEN count_text(<<msg.tool_call_id>>) ELSE 0)

RECURSIVE SumTokens(_)
SumTokens(messages) ==
    IF messages = <<>> THEN 0
    ELSE message_tokens(Head(messages)) + SumTokens(Tail(messages))

\* budget: what is left of max_context_tokens after the fixed costs, not
\* below 0.
Budget(tools, system_prompt, max_context_tokens, max_output_tokens, reserve_tokens) ==
    LET tool_schema_tokens == IF tools # <<>> THEN count_text(ToolsJson(tools)) ELSE 0
        system_prompt_tokens == count_text(system_prompt)
        budget == max_context_tokens - max_output_tokens - reserve_tokens
                  - tool_schema_tokens - system_prompt_tokens
    IN IF budget < 0 THEN 0 ELSE budget

SystemIndices_None(messages) == {}

\* system_indices: the positions of the role-system messages.
SystemIndices(messages) == {i \in DOMAIN messages : messages[i].role = "system"}

Fits_IgnoresRunning(running_tokens, cost, remaining_budget) == cost <= remaining_budget

\* The test that admits a non-system message.
Fits(running_tokens, cost, remaining_budget) == running_tokens + cost <= remaining_budget

\* The loop over reversed(non_system), at position i and below: every
\* message is visited, also after one did not fit.
RECURSIVE WalkBack(_, _, _, _, _, _)
WalkBack(messages, system_indices, i, running_tokens, kept_indices, remaining_budget) ==
    IF i = 0
    THEN [kept_indices |-> kept_indices, running_tokens |-> running_tokens]
    ELSE IF i \in system_indices
    THEN WalkBack(messages, system_indices, i - 1, running_tokens, kept_indices,
                  remaining_budget)
    ELSE LET cost == message_tokens(messages[i])
         IN IF Fits(running_tokens, cost, remaining_budget)
            THEN WalkBack(messages, system_indices, i - 1, running_tokens + cost,
                          kept_indices \cup {i}, remaining_budget)
            ELSE WalkBack(messages, system_indices, i - 1, running_tokens,
                          kept_indices, remaining_budget)

\* [messages[i] for i in sorted(kept_indices)], from position i on.
RECURSIVE KeptFrom(_, _, _)
KeptFrom(messages, kept_indices, i) ==
    IF i > Len(messages) THEN <<>>
    ELSE (IF i \in kept_indices THEN <<messages[i]>> ELSE <<>>)
         \o KeptFrom(messages, kept_indices, i + 1)

\* ContextPacker.pack: the kept messages and the report.
pack(messages, tools, system_prompt, max_context_tokens, max_output_tokens, reserve_tokens) ==
    LET budget == Budget(tools, system_prompt, max_context_tokens, max_output_tokens,
                         reserve_tokens)
        system_indices == SystemIndices(messages)
        system_tokens == SumTokens(KeptFrom(messages, system_indices, 1))
        remaining_budget == IF budget - system_tokens < 0 THEN 0
                            ELSE budget - system_tokens
        walk == WalkBack(messages, system_indices, Len(messages), 0, system_indices,
                         remaining_budget)
        kept_messages == KeptFrom(messages, walk.kept_indices, 1)
    IN [kept_messages |-> kept_messages,
        report |-> [max_context_tokens |-> max_context_tokens,
                    max_output_tokens |-> max_output_tokens,
                    reserve_tokens |-> reserve_tokens,
                    tool_schema_tokens |->
                        IF tools # <<>> THEN count_text(ToolsJson(tools)) ELSE 0,
                    system_prompt_tokens |-> count_text(system_prompt),
                    message_tokens |-> system_tokens + walk.running_tokens,
                    kept_messages |-> Len(kept_messages),
                    dropped_messages |-> Len(messages) - Len(kept_messages)]]

\* The default of reserve_tokens.
DefaultReserve == 200

\* PackMessages: the messages pack is called with.
PackInit ==
    LET PackMessages ==
            {Message("system", <<>>, <<>>, "", 0),
             Message("system", <<"Be terse">>, <<>>, "", 0),
             Message("user", <<>>, <<>>, "", 1),
             Message("user", <<"What is in the log?">>, <<>>, "", 1),
             Message("assistant", <<>>, <<ToolCall("call_0", <<"echo">>, {})>>, "", 1),
             Message("tool", <<"ok">>, <<>>, "call_0", 1)}
    IN
    /\ OrchUnused
    /\ ArtifactIdle
    /\ AuditIdle
    /\ AsmIdle
    /\ StoreIdle
    /\ PolicyIdle
    /\ pk_args \in [messages : UNION {[1..n -> PackMessages] : n \in 0..MaxMessages},
                    tools : {<<>>, << <<"{", "echo", "}">> >>},
                    system_prompt : {<<>>, <<"Be brief.">>},
                    max_context_tokens : 0..MaxContext,
                    max_output_tokens : 0..MaxOutput,
                    reserve_tokens : {0, DefaultReserve}]
    /\ pk_pc = "called"
    /\ pk_ret = <<>>

\* packer.pack(messages, tools, system_prompt, ...)
Pack ==
    /\ pk_pc = "called"
    /\ pk_ret' = pack(pk_args.messages, pk_args.tools, pk_args.system_prompt,
                      pk_args.max_context_tokens, pk_args.max_output_tokens,
                      pk_args.reserve_tokens)
    /\ pk_pc' = "returned"
    /\ UNCHANGED <<pk_args, non_pack_vars>>

NextPacker == Pack

SpecPacker == PackInit /\ [][NextPacker]_vars

\* ================================================================ claims
IsReq(e) == e.event_type = "tool_call_request"
IsRes(e) == e.event_type = "tool_call_result"
IsConf(e) == e.event_type = "confirmation"

CountUpTo(events, n, type, id) ==
    Cardinality({i \in 1..n : events[i].event_type = type /\ events[i].tool_call_id = id})

CallIds(events) ==
    {events[i].tool_call_id : i \in {j \in DOMAIN events : IsReq(events[j]) \/ IsRes(events[j])}}

\* Requests and results can be matched one-to-one by tool_call_id with
\* every result after its request.
PairedById(events) ==
    \A id \in CallIds(events) :
        /\ CountUpTo(events, Len(events), "tool_call_request", id)
             = CountUpTo(events, Len(events), "tool_call_result", id)
        /\ \A n \in 1..Len(events) :
             CountUpTo(events, n, "tool_call_result", id)
               <= CountUpTo(events, n, "tool_call_request", id)

ResultCount(events) == Cardinality({i \in DOMAIN events : IsRes(events[i])})

LastResult(events) ==
    LET S == {i \in DOMAIN events : IsRes(events[i])}
    IN events[CHOOSE i \in S : \A j \in S : j <= i]

HasResult(events) == \E i \in DOMAIN events : IsRes(events[i])

\* C1: when run has returned, the turn's log holds as many tool_call_result
\* as tool_call_request events, paired one-to-one by tool_call_id, each
\* result after its request, whatever way each lifecycle ended.
C1_RequestsPairedWithResults ==
    outcome = "returned" =>
        /\ RequestCount(log) = ResultCount(log)
        /\ PairedById(log)

C1_Witness ==
    /\ outcome = "returned"
    /\ \E i, j \in DOMAIN log :
         /\ i < j
         /\ IsRes(log[i]) /\ log[i].error_code = "timeout"
         /\ IsRes(log[j]) /\ log[j].error_code = "cancelled"
         /\ log[i].tool_call_id = log[j].tool_call_id

CurTool == RegistryGet(cur.tc.name)
CurFound == CurTool # NoTool
CurValid == Validate(CurTool, cur.tc.arguments)
CurDecision == PolicyCheck(policy, CurTool, cur.tc.arguments)

CurMayExecute ==
    /\ CurFound
    /\ CurValid
    /\ CurDecision.allowed
    /\ (CurDecision.requires_confirmation => (cur.asked /\ cur.confirmed))

CurRefusal ==
    IF ~CurFound THEN "unknown_tool"
    ELSE IF ~CurValid THEN "validation_error"
    ELSE IF ~CurDecision.allowed THEN "policy_block"
    ELSE "cancelled"

\* C2: Tool.execute runs only for a call whose tool was found, whose
\* arguments validated, which policy.check allowed and, if confirmation was
\* required, which the callback confirmed; any other call ends unexecuted
\* with a result event of code unknown_tool, validation_error, policy_block
\* or cancelled respectively.
C2_ExecuteOnlyWhenCleared ==
    cur.began =>
        /\ (cur.executed => CurMayExecute)
        /\ ((cur.returned /\ ~CurMayExecute) =>
              /\ ~cur.executed
              /\ cur.result.error_code = CurRefusal
              /\ HasResult(log)
              /\ LastResult(log) = tool_call_result_event(TurnId, cur.tc, cur.result))

C2_Witness ==
    /\ cur.returned
    /\ ~cur.executed
    /\ cur.result.error_code = "policy_block"
    /\ LastResult(log).error_code = "policy_block"

HasErrors(a) == a.metadata.assembler_errors # <<>>

ExitFinal ==
    /\ exit_path = "final"
    /\ llm_calls \in 1..max_turns
    /\ ~HasErrors(assembled)
    /\ assembled.tool_calls = <<>>

ExitProtocolError ==
    /\ exit_path = "protocol_error"
    /\ llm_calls \in 1..max_turns
    /\ HasErrors(assembled)

ExitMaxTurns ==
    /\ exit_path = "max_turns"
    /\ llm_calls = max_turns
    /\ (max_turns > 0 => (~HasErrors(assembled) /\ assembled.tool_calls # <<>>))

ExactlyOneExit ==
    /\ ExitFinal \/ ExitProtocolError \/ ExitMaxTurns
    /\ ~(ExitFinal /\ ExitProtocolError)
    /\ ~(ExitFinal /\ ExitMaxTurns)
    /\ ~(ExitProtocolError /\ ExitMaxTurns)

\* C3: when every await completes, run eventually returns, and it has then
\* returned in exactly one of three ways: after a response without tool
\* calls, after a response with assembler errors, or after max_turns rounds.
C3_RunReturnsOneOfThreeWays ==
    <>[](pc = "done" /\ outcome = "returned" /\ ExactlyOneExit)

C3_Witness ==
    /\ outcome = "returned"
    /\ exit_path = "max_turns"
    /\ max_turns = MaxTurns
    /\ llm_calls = MaxTurns

AllRoundsHadTools == \A i \in DOMAIN rounds : rounds[i].size > 0

RECURSIVE SumSizes(_)
SumSizes(rs) == IF rs = <<>> THEN 0 ELSE Head(rs).size + SumSizes(Tail(rs))

CapMessage == assistant_message_event(TurnId, <<"max_turns_msg">>)

\* C4: when every response carries a tool call and no assembler error, the
\* LLM is invoked exactly max_turns times, every call of those rounds gets
\* its request/result pair, then exactly one cap message is appended as the
\* last event and yielded as the last chunk.
C4_CapAfterMaxTurnsRounds ==
    (outcome = "returned" /\ AllRoundsHadTools) =>
        /\ pc = "done"
        /\ exit_path = "max_turns"
        /\ llm_calls = max_turns
        /\ Len(rounds) = max_turns
        /\ RequestCount(log) = SumSizes(rounds)
        /\ ResultCount(log) = SumSizes(rounds)
        /\ log[Len(log)] = CapMessage
        /\ Cardinality({i \in DOMAIN log : log[i] = CapMessage}) = 1
        /\ yielded # <<>>
        /\ yielded[Len(yielded)] = Chunk("max_turns_msg", TRUE)

C4_Witness ==
    /\ outcome = "returned"
    /\ max_turns = MaxTurns
    /\ Len(rounds) = MaxTurns
    /\ \A i \in DOMAIN rounds : rounds[i].size = 1
    /\ RequestCount(log) = MaxTurns
    /\ ResultCount(log) = MaxTurns

\* C5: a response with assembler errors makes run append one protocol_error
\* event with the errors and one assistant_message (the content, or the
\* fixed apology), nothing else, and return without another LLM call.
C5_ProtocolErrorEndsRun ==
    HasErrors(assembled) =>
        LET r == rounds[Len(rounds)]
        IN /\ pc = "done"
           /\ outcome = "returned"
           /\ exit_path = "protocol_error"
           /\ llm_calls = Len(rounds)
           /\ r.size = 0
           /\ Len(log) = r.start + 2
           /\ log[r.start + 1] =
                protocol_error_event(TurnId, assembled.metadata.assembler_errors)
           /\ log[r.start + 2] =
                assistant_message_event(TurnId,
                    IF assembled.content # <<>> THEN assembled.content
                    ELSE <<"error_msg">>)
           /\ (cur.began => cur.returned)
           /\ yielded[Len(yielded)].done

C5_Witness ==
    /\ HasErrors(assembled)
    /\ assembled.content = <<>>
    /\ llm_calls = 2
    /\ RequestCount(log) > 0

\* C6: chat_complete never returns tool calls together with assembler
\* errors: one failed index empties tool_calls, also of the calls that
\* assembled, and metadata.assembler_errors holds one error per failed
\* finalization.
C6_NoCallsWithErrors ==
    router_pc = "returned" =>
        LET errors == router_ret.metadata.assembler_errors
            finalized == done_fed + Cardinality(DOMAIN router_state.assembler.buf)
        IN /\ ~(router_ret.tool_calls # <<>> /\ errors # <<>>)
           /\ (errors # <<>> => router_ret.tool_calls = <<>>)
           /\ (errors = <<>> => router_ret.tool_calls = flushed_calls)
           /\ Len(errors) = finalized - Len(flushed_calls)

C6_Witness ==
    /\ router_pc = "returned"
    /\ router_ret.metadata.assembler_errors # <<>>
    /\ flushed_calls # <<>>
    /\ router_ret.tool_calls = <<>>

SameCall(e, f) == e.tool_call_id = f.tool_call_id /\ e.tool_name = f.tool_name

\* Each request is followed by its result, with at most a confirmation of
\* the same call between them; each result and confirmation has its request.
Sequential(events) ==
    \A i \in DOMAIN events :
        /\ IsReq(events[i]) =>
             \/ i = Len(events)
             \/ IsRes(events[i + 1]) /\ SameCall(events[i], events[i + 1])
             \/ /\ IsConf(events[i + 1]) /\ SameCall(events[i], events[i + 1])
                /\ \/ i + 1 = Len(events)
                   \/ IsRes(events[i + 2]) /\ SameCall(events[i], events[i + 2])
        /\ IsConf(events[i]) =>
             i > 1 /\ IsReq(events[i - 1]) /\ SameCall(events[i], events[i - 1])
        /\ IsRes(events[i]) =>
             /\ i > 1
             /\ \/ IsReq(events[i - 1]) /\ SameCall(events[i], events[i - 1])
                \/ /\ IsConf(events[i - 1]) /\ SameCall(events[i], events[i - 1])
                   /\ i > 2 /\ IsReq(events[i - 2])

RoundRequests ==
    LET r == rounds[Len(rounds)]
    IN SelectSeq(SubSeq(log, r.start + 1, Len(log)), IsReq)

\* C7: within a round the calls are processed one at a time in the order of
\* assembled.tool_calls: the requests appear in that order and between a
\* request and its result only a confirmation of the same call appears.
C7_SequentialInAssembledOrder ==
    /\ Sequential(log)
    /\ rounds # <<>> =>
         /\ Len(RoundRequests) <= Len(assembled.tool_calls)
         /\ \A k \in 1..Len(RoundRequests) :
              RoundRequests[k] = tool_call_request_event(TurnId, assembled.tool_calls[k])

C7_Witness ==
    /\ Len(assembled.tool_calls) = 2
    /\ assembled.tool_calls[1].name # assembled.tool_calls[2].name
    /\ tc_idx = 2
    /\ cur.returned
    /\ cur.asked
    /\ Len(RoundRequests) = 2

\* C8: once a cancelled run has stopped, every tool call whose request was
\* appended has a matching result in the log.
C8_CancelledRunLeavesPairs ==
    outcome = "cancelled" =>
        /\ RequestCount(log) = ResultCount(log)
        /\ PairedById(log)

\* C9: every tool call that reached execution is audited, whether the
\* execution succeeded, timed out or raised.
C9_ExecutedCallIsAudited ==
    (cur.returned /\ cur.executed) => cur.audit_calls >= 1

\* C10: an audit_log that raises is not propagated: the call's result event
\* is in the log and run goes on to the next call or round.
C10_AuditFailureNotFatal ==
    cur.audit_raised =>
        /\ cur.returned
        /\ outcome \in {"none", "returned"}
        /\ pc \in {"yield_tool", "call", "llm", "done"}
        /\ (pc = "done" => outcome = "returned")
        /\ HasResult(log)
        /\ LastResult(log) = tool_call_result_event(TurnId, cur.tc, cur.result)

C10_Witness ==
    /\ cur.audit_raised
    /\ cur.exec_outcome = "success"
    /\ pc = "llm"

\* A payload of the current call's result could not be stored.
StoreFailed == cur.exec_outcome = "success" /\ cur.stored < cur.payloads

\* C11: when storing an artifact payload of a tool's result fails, the
\* failure is only logged: the call's tool_call_result event is appended
\* and the run does not end with the exception.
C11_StoreFailureStillRecorded ==
    StoreFailed =>
        /\ outcome # "raised"
        /\ cur.returned
        /\ HasResult(log)
        /\ LastResult(log) = tool_call_result_event(TurnId, cur.tc, cur.result)

IsCallEvent(e) == IsReq(e) \/ IsConf(e) \/ IsRes(e)

\* The lifecycle events of the current call: the tool-call events from its
\* request to the end of the log.
CurSegment ==
    LET S == {i \in DOMAIN log : IsReq(log[i])}
        start == CHOOSE i \in S : \A j \in S : j <= i
    IN SelectSeq(SubSeq(log, start, Len(log)), IsCallEvent)

\* policy.check was reached for the current call and asked for confirmation.
CurNeedsConfirmation ==
    CurFound /\ CurValid /\ CurDecision.allowed /\ CurDecision.requires_confirmation

\* C12: a call gets a confirmation event exactly when policy.check returned
\* requires_confirmation; the event carries the callback's outcome, stands
\* between the call's request and its result, and a false outcome is
\* followed at once by the result with error_code cancelled.
C12_ConfirmationEventWhenRequired ==
    cur.returned =>
        LET seg == CurSegment
            req == tool_call_request_event(TurnId, cur.tc)
            res == tool_call_result_event(TurnId, cur.tc, cur.result)
        IN IF CurNeedsConfirmation
           THEN /\ seg = <<req, confirmation_event(TurnId, cur.tc, cur.confirmed), res>>
                /\ seg[2].confirmed = cur.confirmed
                /\ (cur.confirmed => cur.asked)
                /\ (~cur.confirmed => cur.result.error_code = "cancelled")
           ELSE seg = <<req, res>>

C12_Witness ==
    /\ cur.returned
    /\ cur.asked
    /\ ~cur.confirmed
    /\ Len(CurSegment) = 3
    /\ IsConf(CurSegment[2])
    /\ ~CurSegment[2].confirmed
    /\ CurSegment[3].error_code = "cancelled"

\* Every tool message names a tool call of an earlier assistant message of
\* the same turn.
ToolMessagesReferenceCalls(messages) ==
    \A i \in DOMAIN messages :
        messages[i].role = "tool" =>
            \E j \in 1..(i - 1) :
                /\ messages[j].role = "assistant"
                /\ messages[j].turn_id = messages[i].turn_id
                /\ \E k \in DOMAIN messages[j].tool_calls :
                       messages[j].tool_calls[k].id = messages[i].tool_call_id

\* C13: whenever get_messages is called on the log written by run (at the
\* head of each loop iteration and after the run), every tool message's
\* tool_call_id is the id of a tool call carried by an assistant message
\* that precedes it and belongs to the same turn.
C13_ToolMessagesReferenceAssistant ==
    pc \in {"llm", "done"} => ToolMessagesReferenceCalls(get_messages(log))

FailureCodes == {"unknown_tool", "validation_error", "policy_block", "cancelled",
                 "timeout", "tool_exception"}

ResultEvents(events) == SelectSeq(events, IsRes)

IsToolMessage(m) == m.role = "tool"

ToolMessages(messages) == SelectSeq(messages, IsToolMessage)

\* The k-th tool message reports the k-th result event, a failed one in the
\* "[Error] <error>: <content>" form.
FailuresVisible(events, messages) ==
    LET rs == ResultEvents(events)
        tm == ToolMessages(messages)
    IN /\ Len(tm) = Len(rs)
       /\ \A k \in DOMAIN rs :
            (~rs[k].success /\ rs[k].error_code \in FailureCodes) =>
                /\ tm[k].tool_call_id = rs[k].tool_call_id
                /\ tm[k].content = ErrorContent(rs[k].error, rs[k].content)

\* C14: when run is about to invoke the LLM again, the messages derived
\* from the log (the context window being large enough to keep them all)
\* hold, for every tool call of the run that ended in a failure result, a
\* tool message for that call with content "[Error] <error>: <content>".
C14_FailuresReachNextInvocation ==
    (pc = "llm" /\ llm_calls >= 1) => FailuresVisible(log, get_messages(log))

\* Errors recorded for a call_index.
ErrorsOf(idx) ==
    Cardinality({k \in DOMAIN assembler.errors : assembler.errors[k] = ParseError(idx)})

\* The text json.loads is given for an index: the accumulated args or "{}".
RawArgs(args) == IF args = <<>> THEN <<"{", "}">> ELSE args

\* Every index that was fed got a done=true delta last.
AllEndedByDone == \A i \in 0..MaxIndex : asm_hist[i].fed => asm_hist[i].last_done

\* C15: after feeding deltas of which the last one of every call_index has
\* done=true, each call_index has produced at most one ToolCall, and an
\* index whose accumulated args do not parse has produced none and has
\* exactly one error recorded.
C15_AtMostOneCallPerIndex ==
    AllEndedByDone =>
        \A i \in 0..MaxIndex :
            /\ Len(asm_hist[i].calls) <= 1
            /\ (asm_hist[i].fed /\ ~JsonLoads(RawArgs(asm_hist[i].args)).ok) =>
                   /\ asm_hist[i].calls = <<>>
                   /\ ErrorsOf(i) = 1

\* The events of a sequence of rows.
Tags(rows) == [i \in DOMAIN rows |-> rows[i].event]

\* No delete_session has touched the session.
Undeleted(sid) ==
    /\ sid \in st_sessions
    /\ \A t \in Tasks : ~(/\ st_tasks[t].op = "delete"
                          /\ st_tasks[t].sid = sid
                          /\ st_tasks[t].pc \in {"stmt2", "commit"})

\* The events of a session whose append_event had returned when read k began.
ReturnedBefore(k) == Tags(RowsOf(k.began, k.sid))

\* What read k returned, cut down to those events.
GotOfReturned(k) ==
    SelectSeq(Tags(k.result),
              LAMBDA e : \E j \in DOMAIN ReturnedBefore(k) : ReturnedBefore(k)[j] = e)

\* C16: whatever the interleaving of the appends, a get_events that has
\* returned holds every event of its session whose append_event had returned
\* before the read began, in the order in which those appends returned, and
\* no event of another session.
C16_ReadsReflectCompletedAppends ==
    \A t \in Tasks :
        LET k == st_tasks[t]
        IN (k.op = "get_events" /\ k.pc = "done" /\ Undeleted(k.sid)) =>
               /\ \A i \in DOMAIN k.result : k.result[i].session_id = k.sid
               /\ GotOfReturned(k) = ReturnedBefore(k)

C16_Witness ==
    \E t \in Tasks :
        LET k == st_tasks[t]
        IN /\ k.op = "get_events"
           /\ k.pc = "done"
           /\ Undeleted(k.sid)
           /\ Len(ReturnedBefore(k)) >= 1
           /\ Len(k.result) > Len(ReturnedBefore(k))

\* What the store shows of a session: whether its row is there, and its events.
SessionGone(sid) == sid \notin st_sessions /\ RowsOf(st_events, sid) = <<>>

SessionIntact(sid, k) ==
    /\ sid \in st_sessions
    /\ RowsOf(st_events, sid) = RowsOf(k.rows_before, sid)

\* C17: while and after delete_session(S) runs, the store shows S either
\* with all the events it had or without its row and without any of its
\* events, never one without the other, and the rows of the other sessions
\* are as they were before.
C17_DeleteSessionAtomic ==
    \A t \in Tasks :
        LET k == st_tasks[t]
        IN (k.op = "delete" /\ k.pc \in {"stmt2", "commit"}) =>
               /\ SessionGone(k.sid) \/ SessionIntact(k.sid, k)
               /\ st_sessions \ {k.sid} = k.sessions_before \ {k.sid}
               /\ RowsNotOf(st_events, k.sid) = RowsNotOf(k.rows_before, k.sid)

\* The migrations init has to apply to a file at version v.
RECURSIVE Pending(_)
Pending(v) == IF v >= SCHEMA_VERSION THEN <<>> ELSE <<v + 1>> \o Pending(v + 1)

\* C18: init fails on a file whose schema version is greater than
\* SCHEMA_VERSION; on an older file it applies the registered migrations in
\* increasing version order up to SCHEMA_VERSION.
C18_FutureVersionRejected ==
    st_open # "closed" =>
        /\ (st_persisted > SCHEMA_VERSION => st_open = "failed")
        /\ (st_persisted < SCHEMA_VERSION =>
              /\ st_open = "open"
              /\ st_applied = Pending(st_persisted)
              /\ st_version = SCHEMA_VERSION)

IsSystem(m) == m.role = "system"
IsOrdinary(m) == m.role # "system"

\* B: the budget of the pack call, after the fixed costs.
PackBudget ==
    Budget(pk_args.tools, pk_args.system_prompt, pk_args.max_context_tokens,
           pk_args.max_output_tokens, pk_args.reserve_tokens)

SystemMessages == SelectSeq(pk_args.messages, IsSystem)

\* C19: pack keeps every role-system message whatever the limits are, and
\* with budget 0 the kept messages are exactly the system messages.
C19_SystemMessagesAlwaysKept ==
    pk_pc = "returned" =>
        /\ SelectSeq(pk_ret.kept_messages, IsSystem) = SystemMessages
        /\ (PackBudget = 0 => pk_ret.kept_messages = SystemMessages)

C19_Witness ==
    /\ pk_pc = "returned"
    /\ PackBudget < SumTokens(SystemMessages)
    /\ Len(SystemMessages) = 2
    /\ Len(pk_ret.kept_messages) < Len(pk_args.messages)

\* C20: the messages kept by pack cost at most B in all, B being the budget
\* left after max_output, reserve, tool-schema and system-prompt tokens.
C20_KeptWithinBudget ==
    pk_pc = "returned" => SumTokens(pk_ret.kept_messages) <= PackBudget

\* C20 as amended: the kept messages cost at most B, or at most the cost of
\* the system messages where these alone cost more than B.
C20_KeptWithinBudgetOrSystemCost ==
    pk_pc = "returned" =>
        LET S == SumTokens(SystemMessages)
        IN /\ SumTokens(pk_ret.kept_messages) <= (IF S > PackBudget THEN S ELSE PackBudget)
           /\ pk_ret.report.message_tokens = SumTokens(pk_ret.kept_messages)

C20_Witness ==
    /\ pk_pc = "returned"
    /\ SystemMessages # <<>>
    /\ SumTokens(SystemMessages) < PackBudget
    /\ Len(SelectSeq(pk_ret.kept_messages, IsOrdinary)) = 1
    /\ Len(pk_ret.kept_messages) < Len(pk_args.messages)

\* ------------------------------------ tools/policy.py: check on its own
non_policy_vars == <<router_vars, orch_vars, asm_vars, store_vars, pack_vars, audit_vars, artifact_vars>>

PolicyInit ==
    /\ OrchUnused
    /\ ArtifactIdle
    /\ AuditIdle
    /\ AsmIdle
    /\ StoreIdle
    /\ PackIdle
    /\ pol_engine \in [max_risk : {READ_ONLY, WRITE, DESTRUCTIVE, SHELL},
                       confirm_destructive : BOOLEAN,
                       confirm_shell : BOOLEAN, confirm_write : BOOLEAN,
                       blocked_patterns : SUBSET MemberTokens]
    /\ pol_call \in [risk_level : {READ_ONLY, WRITE, DESTRUCTIVE, SHELL},
                     kwargs : SUBSET MemberTokens]
    /\ pol_pc = "called"
    /\ pol_ret = PolicyDecision(TRUE, "ok", FALSE)

\* engine.check(tool, kwargs)
Check ==
    /\ pol_pc = "called"
    /\ pol_ret' = PolicyCheck(pol_engine, pol_call, pol_call.kwargs)
    /\ pol_pc' = "returned"
    /\ UNCHANGED <<pol_engine, pol_call, non_policy_vars>>

NextPolicy == Check

SpecPolicy == PolicyInit /\ [][NextPolicy]_vars

OrdinaryMessages == SelectSeq(pk_args.messages, IsOrdinary)

KeptOrdinary == SelectSeq(pk_ret.kept_messages, IsOrdinary)

\* The last n elements of a sequence.
LastN(s, n) == SubSeq(s, Len(s) - n + 1, Len(s))

\* C21: the ordinary messages pack keeps are a contiguous suffix of the
\* ordinary messages, in their original order: no ordinary message older
\* than a dropped one is kept.
C21_KeptOrdinaryIsSuffix ==
    pk_pc = "returned" =>
        KeptOrdinary = LastN(OrdinaryMessages, Len(KeptOrdinary))

RiskTooHigh == pol_call.risk_level > pol_engine.max_risk

SomePatternMatches == pol_engine.blocked_patterns \cap pol_call.kwargs # {}

\* C22: check denies with risk_too_high:<level>><max> exactly when the
\* tool's risk level is above max_risk; otherwise it denies with
\* blocked_pattern exactly when a blocking pattern matches the arguments;
\* otherwise it allows; a denial never asks for confirmation.
C22_CheckDecision ==
    pol_pc = "returned" =>
        /\ RiskTooHigh <=>
              /\ ~pol_ret.allowed
              /\ pol_ret.reason = "risk_too_high:" \o RiskName(pol_call.risk_level)
                                      \o ">" \o RiskName(pol_engine.max_risk)
        /\ ~RiskTooHigh =>
              (SomePatternMatches <=>
                  (~pol_ret.allowed /\ pol_ret.reason = "blocked_pattern"))
        /\ (~RiskTooHigh /\ ~SomePatternMatches) => pol_ret.allowed
        /\ ~pol_ret.allowed => ~pol_ret.requires_confirmation

C22_Witness ==
    /\ pol_pc = "returned"
    /\ ~RiskTooHigh
    /\ SomePatternMatches
    /\ NeedsConfirm(pol_engine, pol_call)
    /\ pol_ret.reason = "blocked_pattern"

\* --------------------------------- tools/policy.py: audit_log on its own
\* A text is a sequence of pieces; the piece (text, n) is the first n
\* characters of text repeated without end, so that a text of thousands of
\* characters is a short sequence.
Piece(text, n) == [text |-> text, n |-> n]

Whole(text) == <<Piece(text, Len(text))>>

RECURSIVE TextLen(_)
TextLen(t) == IF t = <<>> THEN 0 ELSE Head(t).n + TextLen(Tail(t))

\* The Python slice t[:limit].
RECURSIVE Slice(_, _)
Slice(t, limit) ==
    IF t = <<>> \/ limit = 0 THEN <<>>
    ELSE IF Head(t).n <= limit
         THEN <<Head(t)>> \o Slice(Tail(t), limit - Head(t).n)
         ELSE <<Piece(Head(t).text, limit)>>

REDACTED == "***REDACTED***"

\* rx.sub("***REDACTED***", t) for a regex that matches the literal rx:
\* every whole occurrence is replaced, a cut one is left as it is.
RECURSIVE Sub(_, _)
Sub(rx, t) ==
    IF t = <<>> THEN <<>>
    ELSE LET p == Head(t)
             k == p.n \div Len(rx)
             r == p.n % Len(rx)
         IN  (IF p.text = rx /\ k > 0
              THEN <<Piece(REDACTED, k * Len(REDACTED))>>
                   \o (IF r > 0 THEN <<Piece(rx, r)>> ELSE <<>>)
              ELSE <<p>>)
             \o Sub(rx, Tail(t))

\* PolicyEngine._apply_pattern_redaction: the patterns applied in order.
RECURSIVE _apply_pattern_redaction(_, _)
_apply_pattern_redaction(patterns, out) ==
    IF patterns = <<>> THEN out
    ELSE _apply_pattern_redaction(Tail(patterns), Sub(Head(patterns), out))

\* PolicyEngine.redact_output_for_audit
redact_output_for_audit(engine, text) ==
    _apply_pattern_redaction(engine.redaction_patterns, text)

\* An argument value is a string or a dict of argument values.
Str(t) == [kind |-> "str", text |-> t]
Dict(items) == [kind |-> "dict", items |-> items]

\* PolicyEngine.redact_args_for_audit: the secret fields first, then the
\* patterns on the values that are strings (isinstance(v, str)).
redact_args_for_audit(engine, tool, kwargs) ==
    LET redacted == [k \in DOMAIN kwargs |->
                        IF k \in tool.secret_fields THEN Str(Whole(REDACTED))
                        ELSE kwargs[k]]
    IN  [k \in DOMAIN redacted |->
            IF redacted[k].kind = "str"
            THEN Str(_apply_pattern_redaction(engine.redaction_patterns, redacted[k].text))
            ELSE redacted[k]]

PublicOutputLimit == 2000
SensitiveOutputLimit == 500

\* The record audit_log builds; ts is the time of the write.
AuditRecord_SecretShowsOutput(engine, call, now) ==
    LET base == [ts |-> now,
                 session_id |-> call.session_id,
                 event_id |-> call.event_id,
                 tool_call_id |-> call.tool_call_id,
                 tool_name |-> call.tool.name,
                 risk |-> RiskName(call.tool.risk_level),
                 privacy |-> call.tool.privacy_scope,
                 duration_ms |-> call.duration_ms,
                 success |-> call.result.success,
                 error_code |-> call.result.error_code,
                 metadata |-> call.result.metadata]
    IN  IF call.tool.privacy_scope = "public"
        THEN base @@ [args |-> Dict(redact_args_for_audit(engine, call.tool, call.args)),
                      output |-> redact_output_for_audit(engine,
                                     Slice(call.result.content, PublicOutputLimit))]
        ELSE base @@ [args |-> Str(Whole(REDACTED)),
                      output |-> redact_output_for_audit(engine,
                                     Slice(call.result.content, SensitiveOutputLimit))]

AuditRecord(engine, call, now) ==
    LET base == [ts |-> now,
                 session_id |-> call.session_id,
                 event_id |-> call.event_id,
                 tool_call_id |-> call.tool_call_id,
                 tool_name |-> call.tool.name,
                 risk |-> RiskName(call.tool.risk_level),
                 privacy |-> call.tool.privacy_scope,
                 duration_ms |-> call.duration_ms,
                 success |-> call.result.success,
                 error_code |-> call.result.error_code,
                 metadata |-> call.result.metadata]
    IN  IF call.tool.privacy_scope = "public"
        THEN base @@ [args |-> Dict(redact_args_for_audit(engine, call.tool, call.args)),
                      output |-> redact_output_for_audit(engine,
                                     Slice(call.result.content, PublicOutputLimit))]
        ELSE IF call.tool.privacy_scope = "sensitive"
             THEN base @@ [args |-> Str(Whole(REDACTED)),
                           output |-> redact_output_for_audit(engine,
                                          Slice(call.result.content, SensitiveOutputLimit))]
             ELSE base @@ [args |-> Str(Whole(REDACTED)),
                           output |-> Whole(REDACTED)]

\* The bytes of the line audit_log writes for a record: json.dumps(record,
\* sort_keys=True) and a newline.  A string stands in its quotes, a dict in
\* its braces with `"key": value` members joined by ", "; ts is
\* datetime.now(timezone.utc).isoformat().
RECURSIVE FileSize(_)
FileSize(lines) ==
    LET LineLen(record) ==
            LET RECURSIVE ValueLen(_)
                RECURSIVE MembersLen(_, _)
                RECURSIVE KeysLen(_)
                RECURSIVE Digits(_)
                MembersLen(items, keys) ==
                    IF keys = {} THEN 0
                    ELSE LET k == CHOOSE x \in keys : TRUE
                         IN  Len(k) + 4 + ValueLen(items[k]) + MembersLen(items, keys \ {k})
                ValueLen(v) ==
                    IF v.kind = "str" THEN 2 + TextLen(v.text)
                    ELSE 2 + MembersLen(v.items, DOMAIN v.items)
                         + (IF DOMAIN v.items = {} THEN 0
                            ELSE 2 * (Cardinality(DOMAIN v.items) - 1))
                KeysLen(keys) ==
                    IF keys = <<>> THEN 0 ELSE Len(Head(keys)) + 4 + KeysLen(Tail(keys))
                Digits(n) == IF n < 10 THEN 1 ELSE 1 + Digits(n \div 10)
                RecordKeys == <<"args", "duration_ms", "error_code", "event_id", "metadata",
                                "output", "privacy", "risk", "session_id", "success",
                                "tool_call_id", "tool_name", "ts">>
            IN  2 + KeysLen(RecordKeys) + 2 * (Len(RecordKeys) - 1) + 1
                + ValueLen(record.args)
                + Digits(record.duration_ms)
                + (IF record.error_code = "" THEN Len("null") ELSE 2 + Len(record.error_code))
                + 2 + Len(record.event_id)
                + Len("{}")
                + 2 + TextLen(record.output)
                + 2 + Len(record.privacy)
                + 2 + Len(record.risk)
                + 2 + Len(record.session_id)
                + (IF record.success THEN Len("true") ELSE Len("false"))
                + 2 + Len(record.tool_call_id)
                + 2 + Len(record.tool_name)
                + 2 + Len("2026-01-01T00:00:00.000000+00:00")
    IN  IF lines = <<>> THEN 0 ELSE LineLen(Head(lines)) + FileSize(Tail(lines))

\* The loop of _rotate_if_needed, `for i in range(keep_files - 1, 0, -1)`,
\* from i down: log.i replaces log.(i+1) when log.i exists.
RECURSIVE RotateFrom(_, _)
RotateFrom(files, i) ==
    IF i < 1 THEN files
    ELSE RotateFrom(IF files[i].exists
                    THEN [files EXCEPT ![i + 1] = files[i], ![i] = NoFile]
                    ELSE files,
                    i - 1)

\* PolicyEngine._rotate_if_needed
_rotate_if_needed_CopiesPrimary(engine, files) ==
    IF files[0].exists /\ FileSize(files[0].lines) < engine.audit_max_bytes
    THEN files
    ELSE LET shifted == RotateFrom(files, engine.audit_keep_files - 1)
         IN  IF shifted[0].exists
             THEN [shifted EXCEPT ![1] = shifted[0]]
             ELSE shifted

_rotate_if_needed(engine, files) ==
    IF files[0].exists /\ FileSize(files[0].lines) < engine.audit_max_bytes
    THEN files
    ELSE LET shifted == RotateFrom(files, engine.audit_keep_files - 1)
         IN  IF shifted[0].exists
             THEN [shifted EXCEPT ![1] = shifted[0], ![0] = NoFile]
             ELSE shifted

non_audit_vars == <<router_vars, orch_vars, asm_vars, store_vars, pack_vars, policy_vars, artifact_vars>>

\* The key a redaction pattern of the engine matches.
ApiKey == "sk-12345"

AuditCall(tool, args, content, success) ==
    [session_id |-> "sess-1", event_id |-> "evt-1", tool |-> tool, args |-> args,
     result |-> [success |-> success, content |-> content,
                 error_code |-> IF success THEN "" ELSE "tool_error",
                 metadata |-> <<>>],
     duration_ms |-> 42, tool_call_id |-> "tc-1"]

\* The tools audited: a PUBLIC tool that declares a secret field
\* (Tool.secret_fields overridden), and tests/mock_tools.py's
\* DestructiveTool, SENSITIVE, and ShellTool, SECRET.
\* Argument dicts: a plain message, a message that is a key, a password,
\* and a key one level down.  Tool outputs: a short one, a bare key, a key
\* that ends before the limit of a PUBLIC record and is cut by the limit of
\* a SENSITIVE one, and a long output without a key.
AuditCalls ==
    LET AuditTools ==
            { [name |-> "login", risk_level |-> READ_ONLY,
               privacy_scope |-> "public", secret_fields |-> {"password"}],
              [name |-> "delete_resource", risk_level |-> DESTRUCTIVE,
               privacy_scope |-> "sensitive", secret_fields |-> {}],
              [name |-> "shell", risk_level |-> SHELL,
               privacy_scope |-> "secret", secret_fields |-> {"command"}] }
        AuditArgs ==
            { [message |-> Str(Whole("hello"))],
              [message |-> Str(Whole(ApiKey))],
              [password |-> Str(Whole("hunter2"))],
              [config |-> Dict([token |-> Str(Whole(ApiKey))])] }
        AuditContents ==
            { Whole("ok"),
              Whole(ApiKey),
              <<Piece("x", SensitiveOutputLimit - 4), Piece(ApiKey, Len(ApiKey)),
                Piece("x", PublicOutputLimit)>>,
              <<Piece("x", PublicOutputLimit + SensitiveOutputLimit)>> }
    IN  {AuditCall(t, a, c, TRUE) : t \in AuditTools, a \in AuditArgs, c \in AuditContents}
        \cup {AuditCall(t, [message |-> Str(Whole("hello"))], Whole("ok"), FALSE) :
                  t \in AuditTools}

\* engine.audit_log(...): rotation, the record, the line appended to the
\* primary log, which open("a") creates if it is missing.  The clock reads
\* the number of the write.
audit_log(calls, limit) ==
    /\ Len(aud_written) < limit
    /\ \E call \in calls :
         LET now == Len(aud_written) + 1
             record == AuditRecord(aud_engine, call, now)
             rotated == _rotate_if_needed(aud_engine, aud_files)
         IN  /\ aud_files' = [rotated EXCEPT ![0] =
                                  [exists |-> TRUE, lines |-> Append(rotated[0].lines, record)]]
             /\ aud_written' = Append(aud_written, [call |-> call, record |-> record])
    /\ UNCHANGED <<aud_engine, non_audit_vars>>

\* An engine with default rotation settings, with or without a pattern.
AuditInit ==
    /\ OrchUnused
    /\ ArtifactIdle
    /\ AsmIdle
    /\ StoreIdle
    /\ PackIdle
    /\ PolicyIdle
    /\ aud_engine \in {[DefaultEngine EXCEPT !.redaction_patterns = p] :
                           p \in {<<>>, <<ApiKey>>}}
    /\ aud_files = FreshDirectory(aud_engine.audit_keep_files)
    /\ aud_written = <<>>

NextAudit == audit_log(AuditCalls, MaxAuditCalls)

SpecAudit == AuditInit /\ [][NextAudit]_vars

\* An engine without patterns on a fresh directory, for every keep_files up
\* to MaxKeepFiles.  Thresholds: every write rotates, a primary log of one
\* short line is under the threshold, a primary log of one long line is.
RotationInit ==
    /\ OrchUnused
    /\ ArtifactIdle
    /\ AsmIdle
    /\ StoreIdle
    /\ PackIdle
    /\ PolicyIdle
    /\ aud_engine \in [redaction_patterns : {<<>>},
                        audit_max_bytes : {0, 512, 4096},
                        audit_keep_files : 0..MaxKeepFiles]
    /\ aud_files = FreshDirectory(aud_engine.audit_keep_files)
    /\ aud_written = <<>>

\* The calls of the rotation runs: tests/mock_tools.py's EchoTool with a
\* short and a long output.
NextRotation ==
    audit_log({AuditCall([name |-> "echo", risk_level |-> READ_ONLY,
                          privacy_scope |-> "public", secret_fields |-> {}],
                         [message |-> Str(Whole("hello"))], c, TRUE) :
                   c \in {Whole("ok"), <<Piece("x", PublicOutputLimit)>>}},
              MaxWrites)

SpecRotation == RotationInit /\ [][NextRotation]_vars

WithoutTs(record) == [f \in (DOMAIN record) \ {"ts"} |-> record[f]]

\* Two calls that agree on everything but the argument dict and the output
\* content.
SameButArgsAndContent(a, b) ==
    /\ a.tool = b.tool
    /\ a.session_id = b.session_id
    /\ a.event_id = b.event_id
    /\ a.tool_call_id = b.tool_call_id
    /\ a.duration_ms = b.duration_ms
    /\ a.result.success = b.result.success
    /\ a.result.error_code = b.result.error_code
    /\ a.result.metadata = b.result.metadata

SameButArgs(a, b) == SameButArgsAndContent(a, b) /\ a.result.content = b.result.content

\* C23: two audit_log calls for a SECRET tool that differ only in the
\* arguments or the output content write records that are equal except for
\* ts, with args and output the literal ***REDACTED***; two calls for a
\* SENSITIVE tool that differ only in the arguments write records that are
\* equal except for ts.
C23_RecordIndependentOfProtectedData ==
    \A i, j \in DOMAIN aud_written :
        LET a == aud_written[i]
            b == aud_written[j]
        IN  /\ (a.call.tool.privacy_scope = "secret" /\ SameButArgsAndContent(a.call, b.call))
                => /\ WithoutTs(a.record) = WithoutTs(b.record)
                   /\ a.record.args = Str(Whole(REDACTED))
                   /\ a.record.output = Whole(REDACTED)
            /\ (a.call.tool.privacy_scope = "sensitive" /\ SameButArgs(a.call, b.call))
                => WithoutTs(a.record) = WithoutTs(b.record)

\* Two calls for the SECRET tool were written that differ in both the
\* arguments and the output content, and in nothing else.
C23_Witness ==
    \E i, j \in DOMAIN aud_written :
        /\ aud_written[i].call.tool.privacy_scope = "secret"
        /\ SameButArgsAndContent(aud_written[i].call, aud_written[j].call)
        /\ aud_written[i].call.args # aud_written[j].call.args
        /\ aud_written[i].call.result.content # aud_written[j].call.result.content
        /\ aud_files[0].exists
        /\ Len(aud_files[0].lines) = 2

RECURSIVE TextPieces(_)
TextPieces(t) == IF t = <<>> THEN {} ELSE {Head(t)} \cup TextPieces(Tail(t))

\* The pieces of the strings in an argument value, at every depth.
RECURSIVE ValuePieces(_)
ValuePieces(v) ==
    IF v.kind = "str" THEN TextPieces(v.text)
    ELSE UNION {ValuePieces(v.items[k]) : k \in DOMAIN v.items}

\* The lexeme occurs whole among the pieces.
OccursIn(lexeme, pieces) == \E p \in pieces : p.text = lexeme /\ p.n >= Len(lexeme)

\* The lexeme occurs literally in the args or the output of the record.
OccursInRecord(lexeme, record) ==
    OccursIn(lexeme, ValuePieces(record.args) \cup TextPieces(record.output))

\* The values the call passes in the tool's secret fields.
SecretFieldValues(call) ==
    {p.text : p \in UNION {ValuePieces(call.args[f]) :
                              f \in call.tool.secret_fields \cap DOMAIN call.args}}

\* The matches of the engine's redaction patterns in the call's arguments,
\* at every depth, and in the tool's output.
PatternMatches(engine, call) ==
    {engine.redaction_patterns[n] : n \in DOMAIN engine.redaction_patterns}
    \cap {rx \in {p.text : p \in ValuePieces(Dict(call.args))
                               \cup TextPieces(call.result.content)} :
             OccursIn(rx, ValuePieces(Dict(call.args)) \cup TextPieces(call.result.content))}

\* C24: the record written for a PUBLIC tool holds no value of a secret
\* field and no match of a redaction pattern from the arguments, at any
\* depth, or from the output.
C24_NoProtectedTextInPublicRecord ==
    \A i \in DOMAIN aud_written :
        LET w == aud_written[i]
        IN  w.call.tool.privacy_scope = "public"
                => \A lexeme \in SecretFieldValues(w.call) \cup PatternMatches(aud_engine, w.call) :
                       ~OccursInRecord(lexeme, w.record)

\* C25: the output of a record is at most 2000 characters for a PUBLIC
\* tool and at most 500 for a SENSITIVE one.
C25_OutputWithinLimit ==
    \A i \in DOMAIN aud_written :
        LET w == aud_written[i]
        IN  /\ w.call.tool.privacy_scope = "public"
                => TextLen(w.record.output) <= PublicOutputLimit
            /\ w.call.tool.privacy_scope = "sensitive"
                => TextLen(w.record.output) <= SensitiveOutputLimit

\* The suffix numbers of the rotated files on disk.
RotatedFiles == {i \in (DOMAIN aud_files) \ {0} : aud_files[i].exists}

WrittenRecords == [i \in DOMAIN aud_written |-> aud_written[i].record]

\* C26: after any writes at most keep_files rotated files are on disk, none
\* with a suffix number above keep_files, and the record written last is
\* the last line of the primary log.
C26_RotatedFilesWithinKeep ==
    aud_written # <<>> =>
        /\ Cardinality(RotatedFiles) <= aud_engine.audit_keep_files
        /\ \A i \in RotatedFiles : i <= aud_engine.audit_keep_files
        /\ aud_files[0].exists
        /\ aud_files[0].lines # <<>>
        /\ aud_files[0].lines[Len(aud_files[0].lines)] = WrittenRecords[Len(WrittenRecords)]

\* The lines on disk from the highest-numbered rotated file down to the
\* primary log.
RECURSIVE LinesFrom(_)
LinesFrom(i) ==
    IF i < 0 THEN <<>>
    ELSE (IF aud_files[i].exists THEN aud_files[i].lines ELSE <<>>) \o LinesFrom(i - 1)

LinesOnDisk == LinesFrom(aud_engine.audit_keep_files + 1)

\* C27: the records on disk, read from the highest-numbered rotated file
\* down to the primary log, are the most recent records written, in the
\* order they were written and each once.
C27_DiskHoldsRecentSuffix ==
    /\ Len(LinesOnDisk) <= Len(WrittenRecords)
    /\ LinesOnDisk = LastN(WrittenRecords, Len(LinesOnDisk))

\* Rotations have dropped records, three rotated files are on disk and the
\* primary log holds more than one line.
C27_Witness ==
    /\ Len(LinesOnDisk) < Len(aud_written)
    /\ Cardinality(RotatedFiles) = 3
    /\ Len(aud_files[0].lines) > 1

\* ------------------------------------- session/artifacts.py: ArtifactStore
non_artifact_vars == <<router_vars, orch_vars, asm_vars, store_vars, pack_vars,
                       policy_vars, audit_vars>>

\* str.startswith
StartsWith(s, prefix) == Len(s) >= Len(prefix) /\ SubSeq(s, 1, Len(prefix)) = prefix

\* The Python slice s[:2].
FirstTwo(s) == IF Len(s) <= 2 THEN s ELSE SubSeq(s, 1, 2)

\* path / s: an absolute s replaces the path.  pathlib splits s at "/",
\* drops empty and "." segments and keeps "..".
Join(path, s) ==
    LET RECURSIVE Segments(_, _)
        Segments(rest, seg) ==
            LET parsed == IF seg = "" \/ seg = "." THEN <<>> ELSE <<seg>>
            IN  IF rest = "" THEN parsed
                ELSE IF SubSeq(rest, 1, 1) = "/"
                     THEN parsed \o Segments(SubSeq(rest, 2, Len(rest)), "")
                     ELSE Segments(SubSeq(rest, 2, Len(rest)), seg \o SubSeq(rest, 1, 1))
    IN  IF StartsWith(s, "/") THEN Segments(s, "") ELSE path \o Segments(s, "")

\* Path(s) for a string s; a relative one stands in the working directory,
\* /srv.
PathOf(s) == Join(<<"srv">>, s)

\* path.parent
Parent(path) == IF path = <<>> THEN <<>> ELSE SubSeq(path, 1, Len(path) - 1)

\* Path.resolve(): ".." segments collapsed, the root its own parent.
Resolve(path) ==
    LET RECURSIVE Collapse(_, _)
        Collapse(done, rest) ==
            IF rest = <<>> THEN done
            ELSE IF Head(rest) = ".." THEN Collapse(Parent(done), Tail(rest))
                 ELSE Collapse(Append(done, Head(rest)), Tail(rest))
    IN  Collapse(<<>>, path)

\* str(path)
RECURSIVE PathStr(_)
PathStr(path) ==
    IF path = <<>> THEN "/"
    ELSE IF Len(path) = 1 THEN "/" \o path[1]
         ELSE PathStr(Parent(path)) \o "/" \o path[Len(path)]

\* ArtifactStore._artifact_path
_artifact_path(sha256) == Join(Join(BaseDir, FirstTwo(sha256)), sha256)

\* ArtifactStore._validate_under_base: TRUE when it does not raise.
_validate_under_base_NoSeparator(path) ==
    LET resolved == Resolve(path)
        base_resolved == Resolve(BaseDir)
    IN  StartsWith(PathStr(resolved), PathStr(base_resolved))

_validate_under_base(path) ==
    LET resolved == Resolve(path)
        base_resolved == Resolve(BaseDir)
    IN  \/ StartsWith(PathStr(resolved), PathStr(base_resolved) \o "/")
        \/ resolved = base_resolved

\* Where the operating system arrives when it follows the path: every
\* directory on the way has to exist; NoEntry otherwise.
NoEntry == <<"">>

Locate(fs, path) ==
    LET RECURSIVE Walk(_, _)
        Walk(at, rest) ==
            IF rest = <<>> THEN at
            ELSE IF at \notin fs.dirs THEN NoEntry
                 ELSE IF Head(rest) = ".." THEN Walk(Parent(at), Tail(rest))
                      ELSE Walk(Append(at, Head(rest)), Tail(rest))
    IN  Walk(<<>>, path)

\* path.exists()
PathExists(fs, path) == Locate(fs, path) \in fs.dirs \cup DOMAIN fs.files

IsFile(fs, path) == Locate(fs, path) \in DOMAIN fs.files

\* hashlib.sha256(content).hexdigest(), shortened to four digits; two of
\* the contents share their first two digits.
SHA256(content) ==
    CASE content = "" -> "e3b0"
      [] content = "A" -> "559a"
      [] content = "B" -> "df7e"
      [] content = "AB" -> "5538"

ArtContents == {"", "A", "B", "AB"}

\* file_path.with_suffix(".tmp")
WithSuffix(path, suffix) == Append(Parent(path), path[Len(path)] \o suffix)

\* tmp_path.write_bytes(content); tmp_path.rename(file_path), after
\* subdir.mkdir(exist_ok=True).
WriteFile_NoRename(fs, subdir, file_path, content) ==
    LET made == [fs EXCEPT !.dirs = @ \cup {subdir}]
        tmp_path == WithSuffix(file_path, ".tmp")
    IN  [made EXCEPT !.files = [f \in DOMAIN @ \cup {tmp_path} |->
                                   IF f = tmp_path THEN content ELSE @[f]]]

WriteFile(fs, subdir, file_path, content) ==
    LET made == [fs EXCEPT !.dirs = @ \cup {subdir}]
        tmp_path == WithSuffix(file_path, ".tmp")
        written == [made EXCEPT !.files = [f \in DOMAIN @ \cup {tmp_path} |->
                                              IF f = tmp_path THEN content ELSE @[f]]]
    IN  [written EXCEPT !.files = [f \in (DOMAIN @ \ {tmp_path}) \cup {file_path} |->
                                      IF f = file_path THEN written.files[tmp_path]
                                      ELSE @[f]]]

ArtifactRef(sha256, stored_path, payload) ==
    [sha256 |-> sha256, stored_path |-> stored_path,
     original_name |-> payload.original_name, media_type |-> payload.media_type,
     description |-> payload.description, size_bytes |-> Len(payload.content)]

\* ArtifactStore.store: the file system afterwards, the ref returned, the
\* paths touched and whether the payload was written.
store_AlwaysWrites(fs, payload) ==
    LET sha == SHA256(payload.content)
        subdir == Join(BaseDir, FirstTwo(sha))
        file_path == Join(subdir, sha)
    IN  IF ~_validate_under_base(subdir) \/ ~_validate_under_base(file_path)
        THEN [fs |-> fs, raised |-> "ValueError", value |-> "", touched |-> {},
              wrote |-> FALSE]
        ELSE [fs |-> WriteFile(fs, subdir, file_path, payload.content),
              raised |-> "",
              value |-> ArtifactRef(sha, PathStr(file_path), payload),
              touched |-> {subdir, file_path, WithSuffix(file_path, ".tmp")},
              wrote |-> TRUE]

store(fs, payload) ==
    LET sha == SHA256(payload.content)
        subdir == Join(BaseDir, FirstTwo(sha))
        file_path == Join(subdir, sha)
    IN  IF ~_validate_under_base(subdir) \/ ~_validate_under_base(file_path)
        THEN [fs |-> fs, raised |-> "ValueError", value |-> "", touched |-> {},
              wrote |-> FALSE]
        ELSE IF PathExists(fs, file_path)
             THEN [fs |-> fs, raised |-> "",
                   value |-> ArtifactRef(sha, PathStr(file_path), payload),
                   touched |-> {Locate(fs, file_path)}, wrote |-> FALSE]
             ELSE [fs |-> WriteFile(fs, subdir, file_path, payload.content),
                   raised |-> "",
                   value |-> ArtifactRef(sha, PathStr(file_path), payload),
                   touched |-> {subdir, file_path, WithSuffix(file_path, ".tmp")},
                   wrote |-> TRUE]

\* ArtifactStore.get
get(fs, ref) ==
    LET path == Resolve(PathOf(ref.stored_path))
    IN  IF ~_validate_under_base(path)
        THEN [fs |-> fs, raised |-> "ValueError", value |-> "", touched |-> {},
              wrote |-> FALSE]
        ELSE IF ~PathExists(fs, path)
             THEN [fs |-> fs, raised |-> "FileNotFoundError", value |-> "",
                   touched |-> {}, wrote |-> FALSE]
             ELSE IF ~IsFile(fs, path)
                  THEN [fs |-> fs, raised |-> "IsADirectoryError", value |-> "",
                        touched |-> {Locate(fs, path)}, wrote |-> FALSE]
                  ELSE [fs |-> fs, raised |-> "", value |-> fs.files[Locate(fs, path)],
                        touched |-> {Locate(fs, path)}, wrote |-> FALSE]

\* ArtifactStore.exists
exists(fs, sha256) ==
    LET path == _artifact_path(sha256)
    IN  IF ~_validate_under_base(path)
        THEN [fs |-> fs, raised |-> "ValueError", value |-> FALSE, touched |-> {},
              wrote |-> FALSE]
        ELSE [fs |-> fs, raised |-> "", value |-> PathExists(fs, path),
              touched |-> {Locate(fs, path)} \ {NoEntry}, wrote |-> FALSE]

\* ArtifactStore.delete
delete(fs, sha256) ==
    LET path == _artifact_path(sha256)
        at == Locate(fs, path)
    IN  IF ~_validate_under_base(path)
        THEN [fs |-> fs, raised |-> "ValueError", value |-> FALSE, touched |-> {},
              wrote |-> FALSE]
        ELSE IF ~PathExists(fs, path)
             THEN [fs |-> fs, raised |-> "", value |-> FALSE, touched |-> {},
                   wrote |-> FALSE]
             ELSE IF ~IsFile(fs, path)
                  THEN [fs |-> fs, raised |-> "IsADirectoryError", value |-> FALSE,
                        touched |-> {at}, wrote |-> FALSE]
                  ELSE LET unlinked == [fs EXCEPT !.files = [f \in DOMAIN @ \ {at} |-> @[f]]]
                           subdir == Locate(unlinked, Parent(path))
                           \* subdir.rmdir(): the directory goes when nothing is in it.
                           RemoveIfEmpty(dir) ==
                               IF /\ dir \in unlinked.dirs
                                  /\ \A p \in unlinked.dirs \cup DOMAIN unlinked.files :
                                         p = <<>> \/ Parent(p) # dir
                               THEN [unlinked EXCEPT !.dirs = @ \ {dir}]
                               ELSE unlinked
                       IN  [fs |-> RemoveIfEmpty(subdir), raised |-> "",
                            value |-> TRUE, touched |-> {at, subdir}, wrote |-> FALSE]

\* Hashes handed to exists and delete: the digests, and strings that are
\* paths.
ArtShas ==
    {SHA256(c) : c \in ArtContents} \cup {"../../srv/art2/key", "/srv/art2/key", ""}

ArtCall(op, arg, r) ==
    [op |-> op, arg |-> arg, before |-> art_fs, raised |-> r.raised, value |-> r.value,
     touched |-> r.touched, wrote |-> r.wrote]

\* artifact_store.store(payload), for every content, with plain metadata or
\* with an original_name that is a path out of the base directory.
ArtStore ==
    /\ art_ops < MaxArtOps
    /\ \E c \in ArtContents :
       \E payload \in {[content |-> c, original_name |-> "", media_type |-> "text/plain",
                        description |-> ""],
                       [content |-> c, original_name |-> "../../srv/art2/key",
                        media_type |-> "image/png", description |-> "a report"]} :
         LET r == store(art_fs, payload)
         IN  /\ art_fs' = r.fs
             /\ art_refs' = IF r.raised = ""
                            THEN art_refs \cup {[ref |-> r.value, content |-> payload.content]}
                            ELSE art_refs
             /\ art_ret' = ArtCall("store", payload, r)
    /\ art_ops' = art_ops + 1
    /\ UNCHANGED <<art_tasks, non_artifact_vars>>

\* artifact_store.get(ref), for the refs store returned and for forged ones
\* that name the file outside by its absolute path, through "..", relative
\* to the working directory, and the base directory.
ArtGet ==
    /\ art_ops < MaxArtOps
    /\ \E ref \in {x.ref : x \in art_refs}
                 \cup {[sha256 |-> "fake", stored_path |-> sp,
                        original_name |-> "innocent.txt", media_type |-> "text/plain",
                        description |-> "", size_bytes |-> 0] :
                          sp \in {"/srv/art2/key", "/srv/art/55/../../art2/key",
                                  "art2/key", "/srv/art"}} :
         LET r == get(art_fs, ref)
         IN  /\ art_fs' = r.fs
             /\ art_ret' = ArtCall("get", ref, r)
    /\ art_ops' = art_ops + 1
    /\ UNCHANGED <<art_refs, art_tasks, non_artifact_vars>>

\* artifact_store.exists(sha256)
ArtExists ==
    /\ art_ops < MaxArtOps
    /\ \E sha \in ArtShas :
         LET r == exists(art_fs, sha)
         IN  /\ art_fs' = r.fs
             /\ art_ret' = ArtCall("exists", sha, r)
    /\ art_ops' = art_ops + 1
    /\ UNCHANGED <<art_refs, art_tasks, non_artifact_vars>>

\* artifact_store.delete(sha256); the refs of a deleted artifact are
\* stored refs no longer.
ArtDelete ==
    /\ art_ops < MaxArtOps
    /\ \E sha \in ArtShas :
         LET r == delete(art_fs, sha)
         IN  /\ art_fs' = r.fs
             /\ art_refs' = IF r.raised = "" /\ r.value
                            THEN {x \in art_refs : x.ref.sha256 # sha}
                            ELSE art_refs
             /\ art_ret' = ArtCall("delete", sha, r)
    /\ art_ops' = art_ops + 1
    /\ UNCHANGED <<art_tasks, non_artifact_vars>>

ArtifactInit ==
    /\ OrchUnused
    /\ AsmIdle
    /\ StoreIdle
    /\ PackIdle
    /\ PolicyIdle
    /\ AuditIdle
    /\ ArtifactIdle

NextArtifact == ArtStore \/ ArtGet \/ ArtExists \/ ArtDelete

SpecArtifact == ArtifactInit /\ [][NextArtifact]_vars

\* C28: every ref store returned carries the digest and the length of the
\* payload's content, and get returns that content for it, also after
\* further store calls.
C28_StoredContentRetrievable ==
    \A x \in art_refs :
        /\ x.ref.sha256 = SHA256(x.content)
        /\ x.ref.size_bytes = Len(x.content)
        /\ get(art_fs, x.ref).raised = ""
        /\ get(art_fs, x.ref).value = x.content

\* get returned the empty content of a ref after a different content was
\* stored in the store.
C28_Witness ==
    /\ art_ret.op = "get"
    /\ art_ret.raised = ""
    /\ art_ret.value = ""
    /\ art_ret.arg.sha256 = SHA256("")
    /\ \E x \in art_refs : x.content # ""

\* The file of the payload's content was on disk before the store call.
StoredAgain ==
    /\ art_ret.op = "store"
    /\ IsFile(art_ret.before, _artifact_path(SHA256(art_ret.arg.content)))

\* C29: a store of content that is already stored returns the stored_path
\* the earlier refs of that content have, writes nothing and leaves the
\* files on disk as they were.
C29_StoreIdempotent ==
    StoredAgain =>
        /\ art_ret.raised = ""
        /\ \A x \in art_refs :
               x.content = art_ret.arg.content
                   => x.ref.stored_path = art_ret.value.stored_path
        /\ ~art_ret.wrote
        /\ art_fs = art_ret.before
        /\ Cardinality(DOMAIN art_fs.files) = Cardinality(DOMAIN art_ret.before.files)

\* Content was stored again under another original_name, media_type and
\* description.
C29_Witness ==
    /\ StoredAgain
    /\ \E x \in art_refs :
           /\ x.content = art_ret.arg.content
           /\ x.ref.original_name # art_ret.arg.original_name
           /\ x.ref.media_type # art_ret.arg.media_type
           /\ x.ref.description # art_ret.arg.description

\* The path is the base directory or below it.
UnderBase(path) ==
    /\ Len(path) >= Len(BaseDir)
    /\ SubSeq(path, 1, Len(BaseDir)) = BaseDir

\* The path the caller's stored_path or sha names, resolved.
Supplied ==
    IF art_ret.op = "get" THEN Resolve(PathOf(art_ret.arg.stored_path))
    ELSE Resolve(_artifact_path(art_ret.arg))

\* C30: get, exists and delete raise the path-traversal error and touch
\* nothing when the supplied path resolves outside the base directory;
\* every path a call touches is the base directory or below it; the path
\* store uses depends on the content only.
C30_PathsStayUnderBase ==
    /\ art_ret.op \in {"get", "exists", "delete"} /\ ~UnderBase(Supplied)
         => /\ art_ret.raised = "ValueError"
            /\ art_ret.touched = {}
            /\ art_fs = art_ret.before
    /\ \A p \in art_ret.touched : UnderBase(p)
    /\ art_ret.op = "store"
         => art_ret.value.stored_path = PathStr(_artifact_path(SHA256(art_ret.arg.content)))
    /\ OutsideFile \in DOMAIN art_fs.files

\* delete was called with a hash that is a path to the file outside, after
\* a payload whose original_name is such a path was stored.
C30_Witness ==
    /\ art_ret.op = "delete"
    /\ art_ret.arg = "../../srv/art2/key"
    /\ art_ret.raised = "ValueError"
    /\ \E x \in art_refs : x.ref.original_name = "../../srv/art2/key"

\* An index is finalized once _finalize has dropped its buffer: it has
\* produced a ToolCall or had a parse error recorded.
Finalized(idx) == Len(asm_hist[idx].calls) + ErrorsOf(idx) >= 1

\* C33: a delta fed for a call_index that has already been finalized is a
\* no-op: the index has no buffer afterwards, and no later done=true delta
\* or flush adds a second ToolCall or a second error for it.
C33_LateDeltaIsNoOp ==
    \A i \in 0..MaxIndex :
        Finalized(i) =>
            /\ i \notin DOMAIN assembler.buf
            /\ Len(asm_hist[i].calls) + ErrorsOf(i) = 1

\* The ToolCall an index's deltas make: h is the index's history.
CallOf(idx, h) ==
    ToolCall(IF h.id # NoId THEN h.id ELSE "call_" \o ToString(idx),
             Strip(h.name), JsonLoads(RawArgs(h.args)).value)

\* C34: whenever a ToolCall is finalized for a call_index, its name is the
\* trim of the concatenation of that index's name_deltas in arrival order,
\* its arguments the parse of the concatenation of the index's args_deltas
\* ({} when empty) and its id the first non-empty id seen for the index or
\* call_<index>, whatever deltas of other indices arrived in between.
C34_CallFromOwnDeltas ==
    [][\A i \in 0..MaxIndex :
          asm_hist'[i].calls # asm_hist[i].calls =>
              /\ Len(asm_hist'[i].calls) = Len(asm_hist[i].calls) + 1
              /\ asm_hist'[i].calls[Len(asm_hist'[i].calls)] = CallOf(i, asm_hist'[i])]_vars

\* The buffered indices in ascending order, and those whose args parse.
RECURSIVE Ascending(_, _)
Ascending(from, S) ==
    IF from > MaxIndex + 1 THEN <<>>
    ELSE (IF from \in S THEN <<from>> ELSE <<>>) \o Ascending(from + 1, S)

Parses(asm, idx) == JsonLoads(RawArgs(asm.buf[idx].args)).ok

\* C35: flush finalizes every remaining buffer in ascending call_index
\* order under the rules of a done delta (a ToolCall when the args parse,
\* an error otherwise), leaves no buffer behind, and a flush right after
\* it returns no calls and records no error.
C35_FlushFinalizesAll ==
    [][(/\ asm_ops' = asm_ops + 1
        /\ assembler' = Flush(assembler).asm
        /\ asm_ret' = Flush(assembler).out) =>
           LET keys == Ascending(0, DOMAIN assembler.buf)
               good == SelectSeq(keys, LAMBDA i : Parses(assembler, i))
               bad == SelectSeq(keys, LAMBDA i : ~Parses(assembler, i))
           IN  /\ DOMAIN assembler'.buf = {}
               /\ asm_ret' = [k \in DOMAIN good |->
                                 Finalize(assembler, good[k]).out[1]]
               /\ assembler'.errors =
                      assembler.errors \o [k \in DOMAIN bad |-> ParseError(bad[k])]
               /\ Flush(assembler').out = <<>>
               /\ Flush(assembler').asm = assembler']_vars

\* A flush has returned the calls of two buffers.
C35_Witness == Len(asm_ret) = 2 /\ DOMAIN assembler.buf = {}

\* C36: for an allowed call, requires_confirmation is TRUE exactly when
\* the tool's risk level is SHELL and confirm_shell is set, or it is
\* DESTRUCTIVE and confirm_destructive is set, or it is WRITE and
\* confirm_write is set; a READ_ONLY tool never requires confirmation.
C36_ConfirmationPerLevel ==
    (pol_pc = "returned" /\ pol_ret.allowed) =>
        /\ pol_ret.requires_confirmation <=>
               \/ pol_call.risk_level = SHELL /\ pol_engine.confirm_shell
               \/ pol_call.risk_level = DESTRUCTIVE /\ pol_engine.confirm_destructive
               \/ pol_call.risk_level = WRITE /\ pol_engine.confirm_write
        /\ pol_call.risk_level = READ_ONLY => ~pol_ret.requires_confirmation

\* An engine constructed on the directory an earlier engine left:
\* __init__ makes the directory with exist_ok, so it may hold the rotated
\* logs 1..k of the earlier run, with the primary log or without it (moved
\* away since).  Every file left holds one earlier line.
RestartInit ==
    /\ OrchUnused
    /\ ArtifactIdle
    /\ AsmIdle
    /\ StoreIdle
    /\ PackIdle
    /\ PolicyIdle
    /\ aud_engine \in [redaction_patterns : {<<>>},
                        audit_max_bytes : {0, 512, 4096},
                        audit_keep_files : 0..MaxKeepFiles]
    /\ \E k \in 0..aud_engine.audit_keep_files, primary \in BOOLEAN :
          aud_files = [i \in 0..(aud_engine.audit_keep_files + 1) |->
                         IF (i = 0 /\ primary) \/ (1 <= i /\ i <= k)
                         THEN [exists |-> TRUE,
                               lines |-> <<AuditRecord(aud_engine,
                                                       AuditCall([name |-> "echo", risk_level |-> READ_ONLY,
                                                                  privacy_scope |-> "public",
                                                                  secret_fields |-> {}],
                                                                 [message |-> Str(Whole("hello"))],
                                                                 Whole("ok"), TRUE),
                                                       0)>>]
                         ELSE NoFile]
    /\ aud_written = <<>>

SpecRestart == RestartInit /\ [][NextRotation]_vars

\* The primary log exists and has reached max_size_bytes.
PrimaryFull ==
    /\ aud_files[0].exists
    /\ FileSize(aud_files[0].lines) >= aud_engine.audit_max_bytes

\* C37: audit_log rotates only when the primary log exists with size >=
\* max_size_bytes at the time of the write: when the primary log is smaller
\* or missing, every rotated file is as it was before the write and the
\* record is appended to the primary log, which is created when missing.
C37_RotatesOnlyWhenFull ==
    [][(~PrimaryFull /\ Len(aud_written') = Len(aud_written) + 1) =>
          /\ \A i \in (DOMAIN aud_files) \ {0} : aud_files'[i] = aud_files[i]
          /\ aud_files'[0].exists
          /\ aud_files'[0].lines =
                 Append(aud_files[0].lines, aud_written'[Len(aud_written')].record)]_vars

\* C38: a run that has returned normally, on any of its three termination
\* paths and whatever the content of the reply, has yielded exactly one
\* chunk with done=true, and that chunk is the last one yielded.
C38_ExactlyOneDoneChunkLast ==
    outcome = "returned" =>
        /\ Cardinality({i \in DOMAIN yielded : yielded[i].done}) = 1
        /\ yielded # <<>>
        /\ yielded[Len(yielded)].done

\* C40: when policy.check asks for confirmation and the orchestrator has
\* no confirmation callback, the call fails closed: the tool is not
\* executed, a confirmation event with confirmed=false is appended after
\* the request, and the tool_call_result has error_code cancelled.
C40_NoCallbackFailsClosed ==
    (~confirmation_callback /\ cur.began /\ CurNeedsConfirmation) =>
        /\ ~cur.executed
        /\ ~cur.asked
        /\ pc \notin {"confirm", "exec", "audit", "audit_exc"}
        /\ cur.returned
        /\ cur.result.error_code = "cancelled"
        /\ ~cur.result.success
        /\ Len(CurSegment) = 3
        /\ IsConf(CurSegment[2])
        /\ CurSegment[2].tool_call_id = cur.tc.id
        /\ ~CurSegment[2].confirmed
        /\ IsRes(CurSegment[3])
        /\ CurSegment[3].tool_call_id = cur.tc.id
        /\ CurSegment[3].error_code = "cancelled"

C40_Witness ==
    /\ ~confirmation_callback
    /\ cur.began
    /\ CurNeedsConfirmation
    /\ cur.returned
    /\ pc = "yield_tool"
    /\ cur.result.error_code = "cancelled"

\* Every tool message of the list is preceded, in the list, by an assistant
\* message whose tool_calls contain its tool_call_id.
Paired(messages) ==
    \A j \in DOMAIN messages :
        messages[j].role = "tool" =>
            \E i \in 1..(j - 1) :
                /\ messages[i].role = "assistant"
                /\ \E k \in DOMAIN messages[i].tool_calls :
                       messages[i].tool_calls[k].id = messages[j].tool_call_id

\* C39: in the context window pack returns for a history in which every
\* tool message follows the assistant message that requested it, every kept
\* tool message is preceded by a kept assistant message whose tool_calls
\* contain its tool_call_id: the packer never keeps a tool result while
\* dropping the assistant message that requested it.
C39_KeptToolResultsKeepTheirRequest ==
    (pk_pc = "returned" /\ Paired(pk_args.messages)) => Paired(pk_ret.kept_messages)

\* ------------------------- session/artifacts.py: store calls run concurrently
\* store is a plain function: calls made from several threads, or from
\* several processes that share the base directory, interleave at its file
\* system calls.  A step is one such call; write_bytes is taken as one step.
StorePaths(content) ==
    LET sha == SHA256(content)
        subdir == Join(BaseDir, FirstTwo(sha))
        file_path == Join(subdir, sha)
    IN  [sha |-> sha, subdir |-> subdir, file_path |-> file_path,
         tmp_path |-> WithSuffix(file_path, ".tmp")]

StoreStep(t, next, exc, ret) ==
    art_tasks' = [art_tasks EXCEPT ![t].pc = next, ![t].raised = exc, ![t].value = ret]

\* store(payload) up to `if not file_path.exists()`: on an existing file the
\* ref is returned at once.
store_exists(t) ==
    /\ art_tasks[t].pc = "idle"
    /\ \E c \in {"A", "AB"} :
         LET p == StorePaths(c)
         IN  art_tasks' = [art_tasks EXCEPT ![t] =
                 IF PathExists(art_fs, p.file_path)
                 THEN [pc |-> "returned", content |-> c, raised |-> "",
                       value |-> PathStr(p.file_path)]
                 ELSE [pc |-> "mkdir", content |-> c, raised |-> "", value |-> ""]]
    /\ UNCHANGED <<art_fs, art_refs, art_ret, art_ops, non_artifact_vars>>

\* subdir.mkdir(exist_ok=True); os.chmod(subdir, 0o700)
store_mkdir(t) ==
    /\ art_tasks[t].pc = "mkdir"
    /\ art_fs' = [art_fs EXCEPT !.dirs = @ \cup {StorePaths(art_tasks[t].content).subdir}]
    /\ StoreStep(t, "write", "", "")
    /\ UNCHANGED <<art_refs, art_ret, art_ops, non_artifact_vars>>

\* tmp_path.write_bytes(payload.content)
store_write_bytes(t) ==
    /\ art_tasks[t].pc = "write"
    /\ LET tmp_path == StorePaths(art_tasks[t].content).tmp_path
       IN  art_fs' = [art_fs EXCEPT !.files = [f \in DOMAIN @ \cup {tmp_path} |->
                                                 IF f = tmp_path THEN art_tasks[t].content
                                                 ELSE @[f]]]
    /\ StoreStep(t, "chmod", "", "")
    /\ UNCHANGED <<art_refs, art_ret, art_ops, non_artifact_vars>>

\* os.chmod(tmp_path, 0o600): FileNotFoundError when tmp_path is gone.
store_chmod(t) ==
    /\ art_tasks[t].pc = "chmod"
    /\ IF StorePaths(art_tasks[t].content).tmp_path \in DOMAIN art_fs.files
       THEN StoreStep(t, "rename", "", "")
       ELSE StoreStep(t, "except", "FileNotFoundError", "")
    /\ UNCHANGED <<art_fs, art_refs, art_ret, art_ops, non_artifact_vars>>

\* tmp_path.rename(file_path), which replaces an existing file_path, and
\* the return of the ref; FileNotFoundError when tmp_path is gone.
store_rename(t) ==
    /\ art_tasks[t].pc = "rename"
    /\ LET p == StorePaths(art_tasks[t].content)
       IN  IF p.tmp_path \in DOMAIN art_fs.files
           THEN /\ art_fs' = [art_fs EXCEPT !.files =
                                 [f \in (DOMAIN @ \ {p.tmp_path}) \cup {p.file_path} |->
                                     IF f = p.file_path THEN art_fs.files[p.tmp_path]
                                     ELSE @[f]]]
                /\ StoreStep(t, "returned", "", PathStr(p.file_path))
           ELSE /\ art_fs' = art_fs
                /\ StoreStep(t, "except", "FileNotFoundError", "")
    /\ UNCHANGED <<art_refs, art_ret, art_ops, non_artifact_vars>>

\* except BaseException: unlink tmp_path if it exists, and raise.
store_except(t) ==
    /\ art_tasks[t].pc = "except"
    /\ LET tmp_path == StorePaths(art_tasks[t].content).tmp_path
       IN  art_fs' = [art_fs EXCEPT !.files = [f \in DOMAIN @ \ {tmp_path} |-> @[f]]]
    /\ StoreStep(t, "raised", art_tasks[t].raised, "")
    /\ UNCHANGED <<art_refs, art_ret, art_ops, non_artifact_vars>>

NextWriters ==
    \E t \in 1..MaxWriters :
        \/ store_exists(t)
        \/ store_mkdir(t)
        \/ store_write_bytes(t)
        \/ store_chmod(t)
        \/ store_rename(t)
        \/ store_except(t)

SpecWriters == ArtifactInit /\ [][NextWriters]_vars

\* Every store call has ended.
AllStoresEnded == \A t \in 1..MaxWriters : art_tasks[t].pc \in {"returned", "raised"}

\* C31: when the store calls that ran concurrently have ended, none has
\* raised; each has returned the path of the file of its content, so calls
\* for the same content return the same stored_path; that file holds the
\* full content; and no temp file remains.
C31_ConcurrentStoresSafe ==
    AllStoresEnded =>
        /\ \A t \in 1..MaxWriters :
              LET p == StorePaths(art_tasks[t].content)
              IN  /\ art_tasks[t].pc = "returned"
                  /\ art_tasks[t].value = PathStr(p.file_path)
                  /\ p.file_path \in DOMAIN art_fs.files
                  /\ art_fs.files[p.file_path] = art_tasks[t].content
        /\ \A c \in {"A", "AB"} : StorePaths(c).tmp_path \notin DOMAIN art_fs.files

\* C32: chat_complete uses the provider that was active when it was
\* entered: with set_active called while the stream is consumed, every
\* chunk comes from the original provider, and the provider field and
\* metadata.provider of the AssembledAssistant returned name that provider.
C32_ProviderSnapshottedAtEntry ==
    /\ chunk_sources \subseteq {router_provider}
    /\ router_pc = "returned" =>
           /\ router_ret.provider = router_provider
           /\ router_ret.metadata.provider = router_provider
====
